---- MODULE Spec2Model ----
(***************************************************************************)
(* A model of the workflow-control logic of atomate2 (FHI-aims part):      *)
(*   - the self-replacing convergence job (aims/jobs/convergence.py),      *)
(*   - should_stop_children (aims/run.py),                                 *)
(*   - DoubleRelaxMaker (aims/flows/core.py),                              *)
(*   - FormationEnergyMaker construction (aims/flows/defect.py),           *)
(*   - run_displacements / run_phonon_displacements (common/jobs),         *)
(*   - the AEWF equation-of-state workflow (common/flows, jobs/aewf.py)    *)
(*     and its Birch-Murnaghan fit (common/schemas/aewf.py),               *)
(*   - the anharmonicity functions (common/jobs/anharmonicity.py).         *)
(*                                                                         *)
(* Jobs are executed by jobflow.  A Flow built without an explicit order   *)
(* (JobOrder.AUTO) lets a job run as soon as every job whose output it     *)
(* references has completed; jobs without such a dependency on each other  *)
(* may run in either order.                                                *)
(***************************************************************************)
EXTENDS Integers, Sequences, FiniteSets, TLC

\* ---------------------------------------------------------------- bounds
\* longest convergence_steps list
MaxSteps == 3
\* criterion values (energy per atom, in units of epsilon/2) range over 0..MaxValue
MaxValue == 3
\* most jobs a run of the convergence workflow may create in the model
MaxJobs == 13
\* integers passed as handle_unsuccessful range over 0..MaxInt
MaxInt == 8
\* structures (and caller directories) are numbered 1..MaxStruct
MaxStruct == 3
\* longest species_defaults list passed to from_parameters
MaxDefaults == 3
\* most makers (the maker and those nested in it) in a defect_relax_maker
MaxNodes == 3
\* most displacements passed to run_(phonon_)displacements
MaxDisp == 3
\* longest list of scaling factors passed to the AEWF workflow
MaxFactors == 3
MaxAtoms == 2
MaxSamples == 2
MaxSeed == 2
\* the stationary points of a fitted cubic have real and imaginary parts in
\* -MaxRoot..MaxRoot
MaxRoot == 2

\* ------------------------------------------------------ program constants
\* ConvergenceMaker.epsilon (0.001), in the units of the criterion values
Epsilon == 2

\* ------------------------------------------------------------------ state
VARIABLES
    convergence_steps,  \* ConvergenceMaker.convergence_steps
    jobs,               \* the jobs created so far, in creation order
    convergence_file,   \* convergence.json of each job's directory, or NoFile
    task_state,         \* should_stop_children: task_document.state
    handle_unsuccessful,\* should_stop_children: the toggle passed
    stop_result,        \* should_stop_children: what the call did
    relax_args,         \* DoubleRelaxMaker.make: the maker and the arguments
    relax_flow,         \* DoubleRelaxMaker.make: the flow returned, and its jobs
    parameters,         \* from_parameters: the caller's parameters dict
    fp_args,            \* from_parameters: the arguments as passed
    existing_dirs,      \* from_parameters: the directories that exist
    fp_result,          \* from_parameters: what the call did
    fe_args,            \* FormationEnergyMaker(...): the constructor arguments
    fe_result,          \* FormationEnergyMaker(...): what construction did
    disp_args,          \* run_(phonon_)displacements: the arguments
    disp_result,        \* run_(phonon_)displacements: the response
    aewf_args,          \* AEWF workflow: the maker, the arguments, the entry point
    aewf_result,        \* AEWF workflow: what BaseAEWFMaker.make did
    aewf_jobs,          \* AEWF workflow: the jobs of the flow, in creation order
    aewf_copied,        \* AEWF workflow: what was copied into store_directory
    fit_args,           \* AEWFDoc.from_outputs / bm: the arguments
    fit_result,         \* AEWFDoc.from_outputs / bm: what the call did
    anh_args,           \* anharmonicity jobs: the function and its arguments
    anh_result          \* anharmonicity jobs: what the call did

convVars == <<convergence_steps, jobs, convergence_file>>
stopVars == <<task_state, handle_unsuccessful, stop_result>>
relaxVars == <<relax_args, relax_flow>>
fpVars == <<parameters, fp_args, existing_dirs, fp_result>>
feVars == <<fe_args, fe_result>>
dispVars == <<disp_args, disp_result>>
aewfVars == <<aewf_args, aewf_result, aewf_jobs, aewf_copied>>
fitVars == <<fit_args, fit_result>>
anhVars == <<anh_args, anh_result>>
vars == <<convVars, stopVars, relaxVars, fpVars, feVars, dispVars, aewfVars,
          fitVars, anhVars>>

\* the variables of the other parts
notConv == <<stopVars, relaxVars, fpVars, feVars, dispVars,
            aewfVars, fitVars, anhVars>>
notStop == <<convVars, relaxVars, fpVars, feVars, dispVars,
            aewfVars, fitVars, anhVars>>
notRelax == <<convVars, stopVars, fpVars, feVars, dispVars,
            aewfVars, fitVars, anhVars>>
notFp == <<convVars, stopVars, relaxVars, feVars, dispVars,
            aewfVars, fitVars, anhVars>>
notFe == <<convVars, stopVars, relaxVars, fpVars, dispVars,
            aewfVars, fitVars, anhVars>>
notDisp == <<convVars, stopVars, relaxVars, fpVars, feVars,
            aewfVars, fitVars, anhVars>>
notAewf == <<convVars, stopVars, relaxVars, fpVars, feVars,
            dispVars, fitVars, anhVars>>
notFit == <<convVars, stopVars, relaxVars, fpVars, feVars,
            dispVars, aewfVars, anhVars>>
notAnh == <<convVars, stopVars, relaxVars, fpVars, feVars,
            dispVars, aewfVars, fitVars>>

\* a call that has not been made yet
NotCalled == [kind |-> "not called"]

\* None, as a previous directory
NoDir == 0
NoFile == [exists |-> FALSE]

Abs(x) == IF x < 0 THEN -x ELSE x

\* ===================================================== convergence workflow

\* A job of the convergence flow.  prev_dir and base are job indices: the
\* directory of a calculation is identified with the job that ran in it.
Job(kind, prev_dir, base, field_value, idx) ==
    [kind |-> kind, state |-> "created", prev_dir |-> prev_dir, base |-> base,
     field_value |-> field_value, idx |-> idx, criterion |-> 0]

\* len(self.convergence_steps)
NSteps == Len(convergence_steps)

\* ConvergenceMaker.make, lines 71-84: the calculation index and the
\* convergence flag read from the previous directory
make_idx(prev_dir) ==
    IF prev_dir = NoDir THEN 0
    ELSE IF convergence_file[prev_dir].exists
         THEN convergence_file[prev_dir].data.idx + 1
         ELSE 1

make_converged(prev_dir) ==
    IF prev_dir = NoDir THEN FALSE
    ELSE IF convergence_file[prev_dir].exists
         THEN convergence_file[prev_dir].data.converged
         ELSE FALSE

\* a make that does not look at the convergence flag
make_continues_ignores_converged(prev_dir) ==
    make_idx(prev_dir) < NSteps

\* line 86
make_continues(prev_dir) ==
    make_idx(prev_dir) < NSteps /\ ~make_converged(prev_dir)

\* lines 88-117: the flow [next_base_job, update_file_job, next_job]; b is
\* the index next_base_job gets
replace_flow(prev_dir, b) ==
    LET idx == make_idx(prev_dir) IN
    << Job("base", prev_dir, 0, convergence_steps[idx + 1], idx),
       Job("update", prev_dir, b, 0, 0),
       Job("make", b, 0, 0, 0) >>

\* ConvergenceSummary.from_aims_calc_doc (schemas/task.py): builds the summary
\* from the convergence file of the directory; the outcomes the job can have
from_aims_calc_doc(prev_dir) ==
    IF prev_dir = NoDir THEN {"failed"}
    ELSE IF convergence_file[prev_dir].exists THEN {"completed"}
    ELSE {"completed", "failed"}

\* a job can run once the jobs whose outputs it references have completed
Ready(j) ==
    /\ jobs[j].state = "created"
    /\ CASE jobs[j].kind = "make" ->
              IF jobs[j].prev_dir = NoDir THEN TRUE
              ELSE jobs[jobs[j].prev_dir].state = "completed"
         [] jobs[j].kind = "update" -> jobs[jobs[j].base].state = "completed"
         [] OTHER -> TRUE

\* ConvergenceMaker.make run by the engine
RunMake(j) ==
    /\ j \in 1..Len(jobs)
    /\ jobs[j].kind = "make"
    /\ Ready(j)
    /\ LET p == jobs[j].prev_dir IN
       IF make_continues(p)
       THEN /\ Len(jobs) + 3 <= MaxJobs
            /\ jobs' = [jobs EXCEPT ![j].state = "replaced"]
                          \o replace_flow(p, Len(jobs) + 1)
            /\ convergence_file' = convergence_file \o <<NoFile, NoFile, NoFile>>
       ELSE /\ \E s \in from_aims_calc_doc(p) :
                  jobs' = [jobs EXCEPT ![j].state = s]
            /\ convergence_file' = convergence_file
    /\ UNCHANGED <<convergence_steps, notConv>>

\* the base calculation: produces the criterion value
RunBase(j) ==
    /\ j \in 1..Len(jobs)
    /\ jobs[j].kind = "base"
    /\ Ready(j)
    /\ \E v \in 0..MaxValue :
          jobs' = [jobs EXCEPT ![j].state = "completed", ![j].criterion = v]
    /\ UNCHANGED <<convergence_steps, convergence_file, notConv>>

\* update_convergence_file, lines 155-171: the data to extend, or a failure
update_loaded(prev_dir) ==
    IF prev_dir = NoDir
    THEN [ok |-> TRUE, idx |-> 0,
          data |-> [criterion_values |-> <<>>, convergence_field_values |-> <<>>,
                    converged |-> FALSE, idx |-> 0]]
    ELSE IF convergence_file[prev_dir].exists
         THEN [ok |-> TRUE, idx |-> convergence_file[prev_dir].data.idx + 1,
               data |-> convergence_file[prev_dir].data]
         \* convergence_data is unbound: UnboundLocalError at line 172
         ELSE [ok |-> FALSE, idx |-> 0, data |-> <<>>]

\* line 176-184
is_converged(values) ==
    Abs(values[Len(values)] - values[Len(values) - 1]) < Epsilon

\* lines 172-184
update_data(data, idx, criterion) ==
    LET values == Append(data.criterion_values, criterion) IN
    [criterion_values |-> values,
     convergence_field_values |->
         Append(data.convergence_field_values, convergence_steps[idx + 1]),
     idx |-> idx,
     converged |-> IF Len(values) > 1 THEN is_converged(values)
                   ELSE data.converged]

RunUpdate(j) ==
    /\ j \in 1..Len(jobs)
    /\ jobs[j].kind = "update"
    /\ Ready(j)
    /\ LET l == update_loaded(jobs[j].prev_dir)
           b == jobs[j].base
       IN IF l.ok /\ l.idx < NSteps
          THEN /\ jobs' = [jobs EXCEPT ![j].state = "completed"]
               /\ convergence_file' =
                     [convergence_file EXCEPT ![b] =
                         [exists |-> TRUE,
                          data |-> update_data(l.data, l.idx, jobs[b].criterion)]]
          \* UnboundLocalError, or IndexError of convergence_steps[idx]
          ELSE /\ jobs' = [jobs EXCEPT ![j].state = "failed"]
               /\ convergence_file' = convergence_file
    /\ UNCHANGED <<convergence_steps, notConv>>

\* ConvergenceMaker(...).make(structure): one make job, prev_dir = None
ConvInit ==
    /\ \E n \in 1..MaxSteps : convergence_steps = [i \in 1..n |-> 10 * i]
    /\ jobs = << Job("make", NoDir, 0, 0, 0) >>
    /\ convergence_file = << NoFile >>

\* no convergence workflow
ConvIdle ==
    /\ convergence_steps = <<>>
    /\ jobs = <<>>
    /\ convergence_file = <<>>

\* ==================================================== should_stop_children

\* Python values, tagged with their type
PyBool(b) == [t |-> "bool", v |-> IF b THEN "True" ELSE "False"]
PyStr(x) == [t |-> "str", v |-> x]
PyInt(i) == [t |-> "int", v |-> ToString(i)]
PyNone == [t |-> "NoneType", v |-> "None"]

Return(x) == [kind |-> "return", value |-> x]
Raise(exc, msg) == [kind |-> "raise", value |-> exc, msg |-> msg]

\* a should_stop_children whose bool branch always stops the children
should_stop_children_always_stops(state, handle) ==
    IF state = PyStr("successful") THEN Return(PyBool(FALSE))
    ELSE IF handle.t = "bool" THEN Return(PyBool(TRUE))
    ELSE IF handle = PyStr("error")
         THEN Raise("RuntimeError", "Job was not successful (not converged)!")
    ELSE Raise("RuntimeError", "Unknown option for handle_unsuccessful")

\* run.py lines 66-75
should_stop_children(state, handle) ==
    IF state = PyStr("successful") THEN Return(PyBool(FALSE))
    ELSE IF handle.t = "bool" THEN Return(handle)
    ELSE IF handle = PyStr("error")
         THEN Raise("RuntimeError", "Job was not successful (not converged)!")
    ELSE Raise("RuntimeError", "Unknown option for handle_unsuccessful")

\* TaskState values (schemas/calculation.py), and a document without a state
TaskStates == {PyStr("successful"), PyStr("failed"), PyNone}

HandleValues ==
    {PyBool(TRUE), PyBool(FALSE), PyNone}
    \cup {PyStr(x) : x \in {"error", "Error", "stop", "", "True", "False"}}
    \cup {PyInt(i) : i \in 0..MaxInt}

StopInit ==
    /\ task_state \in TaskStates
    /\ handle_unsuccessful \in HandleValues
    /\ stop_result = NotCalled

StopIdle ==
    /\ task_state = PyNone
    /\ handle_unsuccessful = PyNone
    /\ stop_result = NotCalled

CallShouldStopChildren ==
    /\ stop_result = NotCalled
    /\ stop_result' = should_stop_children(task_state, handle_unsuccessful)
    /\ UNCHANGED <<task_state, handle_unsuccessful, notStop>>

\* ========================================================= DoubleRelaxMaker

\* An argument of a job: a plain value, or a reference to an attribute of the
\* output of the job with index ref in the flow (ref = 0: a plain value)
Val(x) == [ref |-> 0, attr |-> "", val |-> x]
OutputRef(uuid, attr) == [ref |-> uuid, attr |-> attr, val |-> 0]

\* the job a relaxation maker's make(structure, prev_dir=prev_dir) returns
RelaxJob(maker_name, structure, prev_dir) ==
    [name |-> <<maker_name>>, structure |-> structure, prev_dir |-> prev_dir,
     state |-> "created", in_structure |-> 0, in_prev_dir |-> 0,
     out_atoms |-> 0, out_dir_name |-> 0]

\* a make whose second relaxation starts from the caller's structure again
DoubleRelaxMaker_make_unchained(maker, structure, prev_dir) ==
    LET relax1 == RelaxJob(maker.relax_maker1, Val(structure), Val(prev_dir))
        relax2 == RelaxJob(maker.relax_maker2, Val(structure), Val(prev_dir))
    IN [jobs |-> << [relax1 EXCEPT !.name = Append(@, " 1")],
                    [relax2 EXCEPT !.name = Append(@, " 2")] >>,
        output |-> OutputRef(2, "output"),
        name |-> maker.name]

\* core.py lines 51-59
DoubleRelaxMaker_make(maker, structure, prev_dir) ==
    LET relax1 == RelaxJob(maker.relax_maker1, Val(structure), Val(prev_dir))
        relax2 == RelaxJob(maker.relax_maker2,
                           OutputRef(1, "atoms"), OutputRef(1, "dir_name"))
    IN [jobs |-> << [relax1 EXCEPT !.name = Append(@, " 1")],
                    [relax2 EXCEPT !.name = Append(@, " 2")] >>,
        output |-> OutputRef(2, "output"),
        name |-> maker.name]

NoFlow == [jobs |-> <<>>, output |-> Val(0), name |-> ""]

\* the value of argument a once the job it references has completed
Resolve(flow, a) ==
    IF a.ref = 0 THEN a.val
    ELSE IF a.attr = "atoms" THEN flow.jobs[a.ref].out_atoms
    ELSE flow.jobs[a.ref].out_dir_name

Resolved(flow, a) ==
    IF a.ref = 0 THEN TRUE ELSE flow.jobs[a.ref].state = "completed"

\* structures are 1..MaxStruct; directories are NoDir, caller directories
\* 1..MaxStruct, and the directory MaxStruct + i + 1 of job i of the flow
RelaxInit ==
    /\ relax_args \in [maker : {[name |-> "Double relaxation",
                                 relax_maker1 |-> "Relaxation calculation",
                                 relax_maker2 |-> "Relaxation calculation"]},
                       structure : 1..MaxStruct,
                       prev_dir : {NoDir} \cup 1..MaxStruct]
    /\ relax_flow = NoFlow

CallDoubleRelaxMake ==
    /\ relax_flow = NoFlow
    /\ relax_flow' = DoubleRelaxMaker_make(relax_args.maker, relax_args.structure,
                                           relax_args.prev_dir)
    /\ UNCHANGED <<relax_args, notRelax>>

\* the engine runs job i of the flow once its references are resolved; the
\* relaxation yields some structure and writes into its own directory
RunRelax(i) ==
    /\ i \in 1..Len(relax_flow.jobs)
    /\ relax_flow.jobs[i].state = "created"
    /\ Resolved(relax_flow, relax_flow.jobs[i].structure)
    /\ Resolved(relax_flow, relax_flow.jobs[i].prev_dir)
    /\ \E atoms \in 1..MaxStruct :
          relax_flow' = [relax_flow EXCEPT
              !.jobs[i].state = "completed",
              !.jobs[i].in_structure = Resolve(relax_flow, relax_flow.jobs[i].structure),
              !.jobs[i].in_prev_dir = Resolve(relax_flow, relax_flow.jobs[i].prev_dir),
              !.jobs[i].out_atoms = atoms,
              !.jobs[i].out_dir_name = MaxStruct + i + 1]
    /\ UNCHANGED <<relax_args, notRelax>>

\* ======================================== DoubleRelaxMaker.from_parameters

\* A dict is a function from its keys.  Paths and path strings are sequences
\* of components: Path(x) / y appends y, as_posix() is the sequence itself.
HasKey(d, k) == k \in DOMAIN d
SetItem(d, k, v) == [x \in DOMAIN d \cup {k} |-> IF x = k THEN v ELSE d[x]]
PathJoin(dir, name) == Append(dir, name)

\* lines 88-93: the first species-defaults directory that does not exist
\* (0 when all exist)
RECURSIVE first_missing(_, _, _, _)
first_missing(species_dir, species_defaults, dirs, i) ==
    IF i > Len(species_defaults) THEN 0
    ELSE IF PathJoin(species_dir, species_defaults[i]) \notin dirs THEN i
    ELSE first_missing(species_dir, species_defaults, dirs, i + 1)

\* lines 96-100: the makers, and the parameters dict as the loop leaves it,
\* after the first i - 1 basis sets have been handled
RECURSIVE make_makers(_, _, _, _, _)
make_makers(species_dir, species_defaults, params, makers, i) ==
    IF i > Len(species_defaults) THEN [makers |-> makers, parameters |-> params]
    ELSE LET p == SetItem(params, "species_dir",
                          PathJoin(species_dir, species_defaults[i]))
         IN make_makers(species_dir, species_defaults, p,
                        Append(makers, [input_set_generator |->
                                           [user_parameters |-> p]]),
                        i + 1)

\* a from_parameters that checks each directory only when it gets to it
RECURSIVE make_makers_checking(_, _, _, _, _, _)
make_makers_checking(species_dir, species_defaults, dirs, params, makers, i) ==
    IF i > Len(species_defaults)
    THEN [result |-> Return([relax_maker1 |-> makers[1], relax_maker2 |-> makers[2]]),
          parameters |-> params]
    ELSE IF PathJoin(species_dir, species_defaults[i]) \notin dirs
    THEN [result |-> Raise("OSError", "The species defaults directory does not exist"),
          parameters |-> params]
    ELSE LET p == SetItem(params, "species_dir",
                          PathJoin(species_dir, species_defaults[i]))
         IN make_makers_checking(species_dir, species_defaults, dirs, p,
                                 Append(makers, [input_set_generator |->
                                                    [user_parameters |-> p]]),
                                 i + 1)

from_parameters_lazy_check(params, species_defaults, dirs) ==
    IF Len(species_defaults) # 2
    THEN [result |-> Raise("ValueError", "Two species defaults directories must be provided for DoubleRelaxFlow"),
          parameters |-> params]
    ELSE IF ~HasKey(params, "species_dir")
    THEN [result |-> Raise("KeyError", "Provided parameters do not include species_dir"),
          parameters |-> params]
    ELSE make_makers_checking(params["species_dir"], species_defaults, dirs,
                              params, <<>>, 1)

\* core.py lines 81-101: the result, and the caller's dict after the call
from_parameters(params, species_defaults, dirs) ==
    IF Len(species_defaults) # 2
    THEN [result |-> Raise("ValueError", "Two species defaults directories must be provided for DoubleRelaxFlow"),
          parameters |-> params]
    ELSE IF ~HasKey(params, "species_dir")
    THEN [result |-> Raise("KeyError", "Provided parameters do not include species_dir"),
          parameters |-> params]
    ELSE LET species_dir == params["species_dir"] IN
         IF first_missing(species_dir, species_defaults, dirs, 1) # 0
         THEN [result |-> Raise("OSError", "The species defaults directory does not exist"),
               parameters |-> params]
         ELSE LET m == make_makers(species_dir, species_defaults, params, <<>>, 1)
              IN [result |-> Return([relax_maker1 |-> m.makers[1],
                                     relax_maker2 |-> m.makers[2]]),
                  parameters |-> m.parameters]

\* the species directories and basis sets of the model
SpeciesDirs == {<<"species_a">>, <<"species_b">>}
BasisSets == {"light", "tight"}

\* sequences over S of length at most n
SeqUpTo(S, n) == UNION {[1..k -> S] : k \in 0..n}

ParameterDicts ==
    {[k \in {"xc"} |-> <<"pbe">>]}
    \cup {[k \in {"xc", "species_dir"} |->
              IF k = "xc" THEN <<"pbe">> ELSE d] : d \in SpeciesDirs}

FpInit ==
    /\ fp_args \in [parameters : ParameterDicts,
                    species_defaults : SeqUpTo(BasisSets, MaxDefaults)]
    /\ parameters = fp_args.parameters
    /\ existing_dirs \in SUBSET {PathJoin(<<"species_a">>, b) : b \in BasisSets}
    /\ fp_result = NotCalled

CallFromParameters ==
    /\ fp_result = NotCalled
    /\ LET r == from_parameters(parameters, fp_args.species_defaults, existing_dirs)
       IN /\ fp_result' = r.result
          /\ parameters' = r.parameters
    /\ UNCHANGED <<fp_args, existing_dirs, notFp>>

\* ==================================================== FormationEnergyMaker

\* A maker with its nested makers is a sequence of nodes: node 1 is the maker
\* itself, node i > 1 is a maker held in a field of node parent < i.  Each
\* node has its class and the two settings of its input set generator.
MakerNode(cls, charge, cell, parent) ==
    [cls |-> cls, use_structure_charge |-> charge, relax_cell |-> cell,
     parent |-> parent]

\* RelaxMakers with every setting, and a maker of another class whose
\* generator would not pass the check
NodeKinds ==
    {[cls |-> "RelaxMaker", use_structure_charge |-> c, relax_cell |-> r] :
        c \in BOOLEAN, r \in BOOLEAN}
    \cup {[cls |-> "StaticMaker", use_structure_charge |-> FALSE, relax_cell |-> TRUE]}

MakerTrees ==
    UNION {{t \in [1..n -> {MakerNode(k.cls, k.use_structure_charge, k.relax_cell, q) :
                               k \in NodeKinds, q \in 0..(n - 1)}] :
               \A i \in 1..n : IF i = 1 THEN t[i].parent = 0
                               ELSE t[i].parent \in 1..(i - 1)}
           : n \in 1..MaxNodes}

NoError == "ok"

\* lines 210-216
check_defect_relax_maker(relax_maker) ==
    IF ~relax_maker.use_structure_charge
    THEN "use_structure_charge should be set to True"
    ELSE IF relax_maker.relax_cell THEN "Cell should not be relaxed"
    ELSE NoError

\* a class filter that lets every maker through
class_filter_any(node) == TRUE

\* line 221: class_filter=RelaxMaker
class_filter(node) == node.cls = "RelaxMaker"

\* lines 218-223, jobflow's recursive_call with nested=True: func is applied to
\* the maker when it passes the filter, then to the makers nested in it, in
\* order; the first error raised ends the call.  recursive_from(t, i, k) is the
\* call on node i once its nested makers before node k have been visited.
RECURSIVE recursive_call(_, _)
RECURSIVE recursive_nested(_, _, _)
recursive_nested(t, i, k) ==
    IF k > Len(t) THEN NoError
    ELSE IF t[k].parent # i THEN recursive_nested(t, i, k + 1)
    ELSE LET r == recursive_call(t, k) IN
         IF r # NoError THEN r ELSE recursive_nested(t, i, k + 1)

recursive_call(t, i) ==
    LET r == IF class_filter(t[i]) THEN check_defect_relax_maker(t[i]) ELSE NoError
    IN IF r # NoError THEN r ELSE recursive_nested(t, i, i + 1)

\* lines 201-223
validate_maker(defect_relax_maker) == recursive_call(defect_relax_maker, 1)

\* makers are compared by identity: the defect maker, the bulk maker passed
NoMaker == "None"
DefectMaker == "defect_relax_maker"
BulkMaker == "bulk_relax_maker"

\* a __post_init__ that fills in the bulk maker before looking at uc_bulk
post_init_fills_first(args) ==
    LET v == validate_maker(args.defect_relax_maker)
        bulk == IF args.bulk_relax_maker # NoMaker THEN args.bulk_relax_maker
                ELSE DefectMaker
    IN IF v # NoError THEN Raise("ValueError", v)
       ELSE IF args.uc_bulk /\ args.collect_defect_entry_data
       THEN Raise("ValueError", "collect_defect_entry_data should be False when uc_bulk is True")
       ELSE Return([defect_relax_maker |-> DefectMaker,
                    bulk_relax_maker |-> bulk,
                    uc_bulk |-> args.uc_bulk,
                    collect_defect_entry_data |-> args.collect_defect_entry_data])

\* lines 153-164: the constructed maker, or the error raised
post_init(args) ==
    LET v == validate_maker(args.defect_relax_maker) IN
    IF v # NoError THEN Raise("ValueError", v)
    ELSE IF args.uc_bulk
    THEN IF args.bulk_relax_maker # NoMaker
         THEN Raise("ValueError", "bulk_relax_maker should be None when uc_bulk is True")
         ELSE IF args.collect_defect_entry_data
         THEN Raise("ValueError", "collect_defect_entry_data should be False when uc_bulk is True")
         ELSE Return([defect_relax_maker |-> DefectMaker,
                      bulk_relax_maker |-> args.bulk_relax_maker,
                      uc_bulk |-> args.uc_bulk,
                      collect_defect_entry_data |-> args.collect_defect_entry_data])
    ELSE Return([defect_relax_maker |-> DefectMaker,
                 \* self.bulk_relax_maker or self.defect_relax_maker
                 bulk_relax_maker |-> IF args.bulk_relax_maker # NoMaker
                                      THEN args.bulk_relax_maker ELSE DefectMaker,
                 uc_bulk |-> args.uc_bulk,
                 collect_defect_entry_data |-> args.collect_defect_entry_data])

FeInit ==
    /\ fe_args \in [defect_relax_maker : MakerTrees,
                    bulk_relax_maker : {NoMaker, BulkMaker},
                    uc_bulk : BOOLEAN,
                    collect_defect_entry_data : BOOLEAN]
    /\ fe_result = NotCalled

Construct ==
    /\ fe_result = NotCalled
    /\ fe_result' = post_init(fe_args)
    /\ UNCHANGED <<fe_args, notFe>>

\* ================================ run_displacements, run_phonon_displacements

\* an entry of an output list: a reference to an attribute of the output of
\* job `job` of the replacement flow, or (job = 0) the plain number val
JobOutput(job, attr) == [job |-> job, attr |-> attr, val |-> 0]
Number(n) == [job |-> 0, attr |-> "", val |-> n]

\* an output: a Python list of entries, or a single reference (to a list the
\* job will produce)
List(items) == [list |-> TRUE, items |-> items]
Single(item) == [list |-> FALSE, items |-> <<item>>]

NoArgname == "None"

\* the job maker.make(structure, **kwargs) returns; name holds what
\* append_name added
DisplacementJob(structures, kwargs, name) ==
    [structures |-> structures, kwargs |-> kwargs, name |-> name]

\* anharmonicity.py lines 313-315, phonons.py lines 315-317
job_kwargs(prev_dir, prev_dir_argname) ==
    IF prev_dir # NoDir /\ prev_dir_argname # NoArgname
    THEN {<<prev_dir_argname, prev_dir>>}
    ELSE {}

\* a job name counted from 0
phonon_job_name_from_zero(i, n) == <<" ", ToString(i - 1), "/", ToString(n)>>

\* phonons.py line 337, for the i-th displacement (i from 1) of n
phonon_job_name(i, n) == <<" ", ToString(i), "/", ToString(n)>>

\* anharmonicity.py lines 338-340
anharmonicity_job_name(i, n) ==
    <<" anharmonicity quant. ", ToString(i), "/", ToString(n)>>

\* phonons.py lines 323-358
run_phonon_displacements(displacements, prev_dir, prev_dir_argname, socket) ==
    LET n == Len(displacements)
        phonon_job_kwargs == job_kwargs(prev_dir, prev_dir_argname)
    IN IF socket
       THEN [jobs |-> << DisplacementJob(displacements, phonon_job_kwargs, <<>>) >>,
             output |->
                [displacement_number |-> List([i \in 1..n |-> Number(i - 1)]),
                 uuids |-> List([i \in 1..n |-> JobOutput(1, "uuid")]),
                 dirs |-> List([i \in 1..n |-> JobOutput(1, "dir_name")]),
                 forces |-> Single(JobOutput(1, "output.all_forces"))]]
       ELSE [jobs |-> [i \in 1..n |->
                          DisplacementJob(<<displacements[i]>>, phonon_job_kwargs,
                                          phonon_job_name(i, n))],
             output |->
                [displacement_number |-> List([i \in 1..n |-> Number(i - 1)]),
                 uuids |-> List([i \in 1..n |-> JobOutput(i, "uuid")]),
                 dirs |-> List([i \in 1..n |-> JobOutput(i, "dir_name")]),
                 forces |-> List([i \in 1..n |-> JobOutput(i, "output.forces")])]]

\* anharmonicity.py lines 306-360
run_displacements(displacements, prev_dir, prev_dir_argname, socket) ==
    LET n == Len(displacements)
        force_eval_job_kwargs == job_kwargs(prev_dir, prev_dir_argname)
    IN IF socket
       THEN [jobs |-> << DisplacementJob(displacements, force_eval_job_kwargs, <<>>) >>,
             output |->
                [coords |-> Single(JobOutput(1, "calcs_reversed")),
                 uuids |-> List([i \in 1..n |-> JobOutput(1, "uuid")]),
                 dirs |-> List([i \in 1..n |-> JobOutput(1, "dir_name")]),
                 forces |-> Single(JobOutput(1, "output.all_forces"))]]
       ELSE [jobs |-> [i \in 1..n |->
                          DisplacementJob(<<displacements[i]>>,
                                          \* lines 334-337
                                          IF prev_dir # NoDir
                                          THEN {<<"prev_dir", prev_dir>>} ELSE {},
                                          anharmonicity_job_name(i, n))],
             output |->
                [coords |-> List([i \in 1..n |-> JobOutput(i, "structure.cart_coords")]),
                 uuids |-> List([i \in 1..n |-> JobOutput(i, "uuid")]),
                 dirs |-> List([i \in 1..n |-> JobOutput(i, "dir_name")]),
                 forces |-> List([i \in 1..n |-> JobOutput(i, "output.forces")])]]

\* displaced structures are numbered from 101, in displacement order
DispInit ==
    /\ disp_args \in [fn : {"run_displacements", "run_phonon_displacements"},
                      displacements : {[i \in 1..n |-> 100 + i] : n \in 0..MaxDisp},
                      prev_dir : {NoDir, 1},
                      prev_dir_argname : {NoArgname, "prev_dir", "prev_calc_dir"},
                      socket : BOOLEAN]
    /\ disp_result = NotCalled

CallRunDisplacements ==
    /\ disp_result = NotCalled
    /\ disp_args.fn = "run_displacements"
    /\ disp_result' = Return(run_displacements(disp_args.displacements,
                          disp_args.prev_dir, disp_args.prev_dir_argname,
                          disp_args.socket))
    /\ UNCHANGED <<disp_args, notDisp>>

CallRunPhononDisplacements ==
    /\ disp_result = NotCalled
    /\ disp_args.fn = "run_phonon_displacements"
    /\ disp_result' = Return(run_phonon_displacements(disp_args.displacements,
                          disp_args.prev_dir, disp_args.prev_dir_argname,
                          disp_args.socket))
    /\ UNCHANGED <<disp_args, notDisp>>

\* ================================ AEWFDoc.from_outputs and bm (schemas/aewf.py)

\* Scaling factors and volumes are kept in hundredths: 94 stands for 0.94.
\* A Python str is the sequence of its characters.
PyList(items) == [t |-> "list", items |-> items]
NdArray(items) == [t |-> "ndarray", items |-> items]
PyDict(items) == [t |-> "dict", items |-> items]
PyFloat(x) == [t |-> "float", x |-> x]
IsNone(x) == x.t = "NoneType"

Digits == <<"0", "1", "2", "3", "4", "5", "6", "7", "8", "9">>
DigitValue(c) == CHOOSE d \in 0..9 : Digits[d + 1] = c

\* str(eta) of a float 0 <= eta < 10 with at most two decimals: the shortest
\* repr, which keeps one decimal at least ("1.0", "0.9", "0.94")
float_str(eta) ==
    LET whole == eta \div 100
        frac == eta % 100
    IN <<Digits[whole + 1], ".">> \o
       (IF frac % 10 = 0 THEN <<Digits[(frac \div 10) + 1]>>
        ELSE <<Digits[(frac \div 10) + 1], Digits[(frac % 10) + 1]>>)

\* str.replace(old, new) for one-character old and new
str_replace(s, old, new) == [i \in 1..Len(s) |-> IF s[i] = old THEN new ELSE s[i]]

\* float(s) of a str "w.d" or "w.dd"
str_float(s) ==
    LET dot == CHOOSE i \in 1..Len(s) : s[i] = "."
        tenths == DigitValue(s[dot + 1])
        hundredths == IF Len(s) > dot + 1 THEN DigitValue(s[dot + 2]) ELSE 0
    IN DigitValue(s[dot - 1]) * 100 + tenths * 10 + hundredths

\* jobs/aewf.py lines 22-24
float2bson(eta) == str_replace(float_str(eta), ".", "_")

\* schemas/aewf.py lines 104-106
bson2float(eta) == str_float(str_replace(eta, "_", "."))

\* A polynomial (np.poly1d) is the sequence of its integer coefficients,
\* highest power first, without leading zeros; a complex number is [re, im].
RECURSIVE poly1d(_)
poly1d(c) ==
    IF Len(c) > 1 /\ c[1] = 0 THEN poly1d(Tail(c)) ELSE c

\* np.polyder(p, 1)
polyder(p) ==
    IF Len(p) <= 1 THEN <<0>>
    ELSE poly1d([i \in 1..(Len(p) - 1) |-> p[i] * (Len(p) - i)])

Complex(re, im) == [re |-> re, im |-> im]
CMul(x, y) == Complex(x.re * y.re - x.im * y.im, x.re * y.im + x.im * y.re)

\* p(x), by Horner's rule
RECURSIVE polyval(_, _, _)
polyval(p, x, i) ==
    IF i = 1 THEN Complex(p[1], 0)
    ELSE LET rest == CMul(polyval(p, x, i - 1), x)
         IN Complex(rest.re + p[i], rest.im)

\* numpy orders complex numbers by real part, then by imaginary part
GreaterThanZero(x) == x.re > 0 \/ (x.re = 0 /\ x.im > 0)

ISqrt(n) == CHOOSE r \in 0..n : r * r = n

\* np.roots of a polynomial of degree at most 2 whose roots are Gaussian
\* integers; the order of the two roots of a quadratic is the library's
\* (reversed tells which)
np_roots(p, reversed) ==
    IF Len(p) = 3
    THEN LET disc == p[2] * p[2] - 4 * p[1] * p[3]
             root == ISqrt(IF disc >= 0 THEN disc ELSE -disc)
             plus == IF disc >= 0 THEN Complex((-p[2] + root) \div (2 * p[1]), 0)
                     ELSE Complex((-p[2]) \div (2 * p[1]), root \div (2 * p[1]))
             minus == IF disc >= 0 THEN Complex((-p[2] - root) \div (2 * p[1]), 0)
                      ELSE Complex((-p[2]) \div (2 * p[1]), (-root) \div (2 * p[1]))
         IN IF reversed THEN <<minus, plus>> ELSE <<plus, minus>>
    ELSE IF Len(p) = 2 THEN <<Complex((-p[2]) \div p[1], 0)>>
    ELSE <<>>

\* what np.polyfit(volumes ** (-2/3), energies, 3, full=True) returns for the
\* call at hand: [coefficients, ssr]
np_polyfit == fit_args.polyfit

\* lines 51-55: the index of the root the loop breaks at, 0 when it runs out
RECURSIVE bm_loop_accepts_maxima(_, _, _)
bm_loop_accepts_maxima(roots, deriv2, i) ==
    IF i > Len(roots) THEN 0
    ELSE IF GreaterThanZero(roots[i]) /\ roots[i].im = 0 THEN i
    ELSE bm_loop_accepts_maxima(roots, deriv2, i + 1)

RECURSIVE bm_loop(_, _, _)
bm_loop(roots, deriv2, i) ==
    IF i > Len(roots) THEN 0
    ELSE IF /\ GreaterThanZero(roots[i])
            /\ GreaterThanZero(polyval(deriv2, roots[i], Len(deriv2)))
            /\ roots[i].im = 0
         THEN i
    ELSE bm_loop(roots, deriv2, i + 1)

\* lines 40-70.  The values that need fractional powers of x are kept as the
\* quantities they are computed from.
bm(volumes, energies) ==
    IF volumes.t = "list"
    THEN Raise("TypeError", "unsupported operand type(s) for ** or pow(): 'list' and 'float'")
    ELSE LET fitdata == np_polyfit
             deriv0 == poly1d(fitdata.coefficients)
             deriv1 == polyder(deriv0)
             deriv2 == polyder(deriv1)
             deriv3 == polyder(deriv2)
             roots == np_roots(deriv1, fitdata.reversed)
             found == bm_loop(roots, deriv2, 1)
         IN IF found = 0
            THEN Raise("ValueError", "Error: No minimum could be found")
            ELSE LET x == roots[found]
                 IN Return([volume0 |-> [base |-> x, power |-> <<-3, 2>>],
                            min_energy |-> polyval(deriv0, x, Len(deriv0)),
                            deriv2 |-> polyval(deriv2, x, Len(deriv2)),
                            deriv3 |-> polyval(deriv3, x, Len(deriv3)),
                            residuals0 |-> fitdata.ssr])

\* an entry of eos_outputs: key eta, value (uuid, task document)
DictItem(key, value) == [key |-> key, value |-> value]
TaskDoc(dir_name, free_energy, structure) ==
    [dir_name |-> dir_name, free_energy |-> free_energy, structure |-> structure]

\* lines 239-303, called with the keyword arguments kwargs besides eos_outputs
\* and relax_outputs
from_outputs(eos_outputs, relax_outputs, kwargs) ==
    IF kwargs # {}
    THEN Raise("TypeError", "from_outputs() got an unexpected keyword argument")
    ELSE IF eos_outputs.t # "dict"
    THEN Raise("AttributeError", "'tuple' object has no attribute 'items'")
    ELSE LET items == eos_outputs.items
             HasEnergy(e) == ~IsNone(e.value.output.free_energy)
             kept == SelectSeq(items, HasEnergy)
             warned == SelectSeq(items, LAMBDA e : ~HasEnergy(e))
             volumes == [i \in 1..Len(kept) |-> kept[i].value.output.structure.volume]
             energies == [i \in 1..Len(kept) |-> kept[i].value.output.free_energy.x]
             scaling_factors == [i \in 1..Len(kept) |-> bson2float(kept[i].key)]
             eos_jobdirs == [i \in 1..Len(kept) |-> kept[i].value.output.dir_name]
             eos_uuids == [i \in 1..Len(kept) |-> kept[i].value.uuid]
             bm_fit_params == bm(PyList(volumes), PyList(energies))
             unit == SelectSeq(items, LAMBDA e : bson2float(e.key) = 100)
         IN IF bm_fit_params.kind = "raise"
            THEN bm_fit_params
            ELSE Return([structure |->
                             IF Len(unit) > 0
                             THEN unit[Len(unit)].value.output.structure
                             ELSE IF ~IsNone(relax_outputs)
                             THEN relax_outputs.output.structure
                             ELSE [items[Len(items)].value.output.structure
                                      EXCEPT !.volume = bm_fit_params.value.volume0],
                         energies |-> energies,
                         volumes |-> volumes,
                         scaling_factors |-> scaling_factors,
                         bm_fit_params |-> bm_fit_params.value,
                         eos_workflow_uuids |-> eos_uuids,
                         eos_jobdirs |-> eos_jobdirs,
                         optimization_run_uuid |->
                             IF IsNone(relax_outputs) THEN PyNone
                             ELSE PyInt(relax_outputs.uuid),
                         optimization_run_job_dir |->
                             IF IsNone(relax_outputs) THEN PyNone
                             ELSE PyInt(relax_outputs.output.dir_name),
                         warnings |-> [i \in 1..Len(warned) |-> warned[i].key]])

\* the inputs of from_outputs and bm
Factors == {94, 100, 106}
Energies == {PyNone, PyFloat(1), PyFloat(2)}
ScaleVolume(volume0, eta) == (volume0 * eta) \div 100
Structure(volume) == [volume |-> volume]

\* the sequences over S of length 1..n without repetitions
DistinctSeqs(S, n) ==
    {q \in SeqUpTo(S, n) : Len(q) > 0 /\ \A i, j \in 1..Len(q) : q[i] = q[j] => i = j}

\* the outputs of finished EOS calculations, as setup_eos_calculations
\* arranges them: job i ran factor etas[i] and found energy free[i]
EosOutputsDict(etas, free) ==
    PyDict([i \in 1..Len(etas) |->
        DictItem(float2bson(etas[i]),
                 [uuid |-> i,
                  output |-> TaskDoc(i, free[i], Structure(ScaleVolume(100, etas[i])))])])

EosOutputsTuple(etas, free) ==
    [t |-> "tuple", uuid |-> 1,
     output |-> TaskDoc(1, free,
                        PyList([i \in 1..Len(etas) |-> Structure(ScaleVolume(100, etas[i]))])),
     factors |-> etas]

\* a finished relaxation (uuid, task document)
RelaxOutputs == [t |-> "tuple", uuid |-> 0, output |-> TaskDoc(0, PyFloat(1), Structure(100))]

\* cubics whose stationary points are Gaussian integers: a pair of real
\* roots r1, r2 or a conjugate pair p +- qi of the derivative, a parabola, a
\* straight line
FitCoefficients ==
    LET R == -MaxRoot..MaxRoot
    IN {<<2 * m, -3 * m * (r1 + r2), 6 * m * r1 * r2, d>> :
            m \in {-1, 1}, r1 \in R, r2 \in R, d \in {0, 1}}
       \cup {<<2 * m, -6 * m * pq[1], 6 * m * (pq[1] * pq[1] + pq[2] * pq[2]), d>> :
            m \in {-1, 1}, pq \in R \X (1..MaxRoot), d \in {0, 1}}
       \cup {<<0, b, -2 * b * r, d>> : b \in {-1, 1}, r \in R, d \in {0, 1}}
       \cup {<<0, 0, c, d>> : c \in {-1, 0, 1}, d \in {0, 1}}

FitInit ==
    /\ \/ \E etas \in DistinctSeqs(Factors, MaxFactors) :
          \E free \in [1..Len(etas) -> Energies] :
              fit_args \in [fn : {"from_outputs"},
                            eos_outputs : {EosOutputsDict(etas, free)},
                            relax_outputs : {PyNone, RelaxOutputs}]
       \/ \E etas \in DistinctSeqs(Factors, MaxFactors) :
              fit_args \in [fn : {"from_outputs"},
                            eos_outputs : {EosOutputsTuple(SortSeq(etas, <), free) :
                                              free \in Energies},
                            relax_outputs : {PyNone, RelaxOutputs}]
       \/ fit_args \in [fn : {"bm"},
                        volumes : {NdArray(<<94, 98, 100, 102, 106>>)},
                        energies : {NdArray(<<2, 1, 1, 1, 2>>)},
                        polyfit : [coefficients : FitCoefficients,
                                   reversed : BOOLEAN,
                                   ssr : {0}]]
    /\ fit_result = NotCalled

\* AEWFDoc.from_outputs(eos_outputs, relax_outputs)
CallFromOutputs ==
    /\ fit_args.fn = "from_outputs"
    /\ fit_result = NotCalled
    /\ fit_result' = from_outputs(fit_args.eos_outputs, fit_args.relax_outputs, {})
    /\ UNCHANGED <<fit_args, notFit>>

\* bm(volumes, energies)
CallBm ==
    /\ fit_args.fn = "bm"
    /\ fit_result = NotCalled
    /\ fit_result' = bm(fit_args.volumes, fit_args.energies)
    /\ UNCHANGED <<fit_args, notFit>>

\* ============================== the AEWF equation-of-state workflow (aewf.py)

\* common/flows/aewf.py line 43, common/jobs/aewf.py line 124
DefaultScalingFactors == <<94, 96, 98, 100, 102, 104, 106>>

PyPath(parts) == [t |-> "Path", parts |-> parts]

\* pathlib.Path(x)
Path(x) ==
    IF IsNone(x)
    THEN Raise("TypeError", "expected str, bytes or os.PathLike object, not NoneType")
    ELSE Return(IF x.t = "Path" THEN x ELSE PyPath(<<x.v>>))

\* np.min of a non-empty list
RECURSIVE np_min(_)
np_min(l) ==
    IF Len(l) = 1 THEN l[1]
    ELSE LET rest == np_min(Tail(l)) IN IF l[1] <= rest THEN l[1] ELSE rest

\* a job of the flow; its uuid is its position in aewf_jobs
AewfJob(fn, name, args) ==
    [fn |-> fn, name |-> name, args |-> args, state |-> "created", output |-> PyNone]

StaticMaker == [name |-> "AEWF_EOS_STATIC", k_grid |-> PyNone]
RelaxMaker == [t |-> "Maker", name |-> "Relaxation calculation"]

\* aims/flows/aewf.py lines 77-87: the k_grid is computed from the lattice
\* scaled to scaling_factor * volume0, which stands for it here
update_kgrid(structure, maker, scaling_factor) ==
    LET volume0 == structure.volume
        min_scaling == ScaleVolume(volume0, scaling_factor)
    IN [maker EXCEPT !.k_grid = [t |-> "k_grid", lattice_volume |-> min_scaling]]

\* common/flows/aewf.py lines 40-43
BaseAEWFMaker_post_init(maker) ==
    IF IsNone(maker.scaling_factors)
    THEN [maker EXCEPT !.scaling_factors = PyList(DefaultScalingFactors)]
    ELSE maker

\* common/flows/aewf.py lines 70-102
BaseAEWFMaker_make(maker, structure, subdirec, socket) ==
    LET structure_copy == structure
        has_relax == ~IsNone(maker.relax_maker)
        relax_jobs == IF has_relax
                      THEN <<AewfJob("relax", <<maker.relax_maker.name>>,
                                     [structure |-> Val(structure)])>>
                      ELSE <<>>
        structure_eos == IF has_relax THEN OutputRef(1, "structure")
                         ELSE Val(structure_copy)
        relax_outputs == IF has_relax
                         THEN [t |-> "tuple", uuid |-> 1,
                               output |-> OutputRef(1, "output")]
                         ELSE PyNone
        kgrid == Len(relax_jobs) + 1
        made == Append(relax_jobs,
                       AewfJob("update_kgrid", <<"update_kgrid">>,
                               [structure |-> structure_eos,
                                maker |-> Val(maker.static_maker),
                                scaling_factor |-> np_min(maker.scaling_factors.items)]))
        static_maker == OutputRef(kgrid, "output")
        path == Path(maker.store_directory)
    IN IF path.kind = "raise" THEN path
       ELSE LET store_directory ==
                    IF ~IsNone(subdirec)
                    THEN PyPath(Append(path.value.parts, subdirec.v))
                    ELSE path.value
                eos_static_calcs ==
                    AewfJob("setup_eos_calculations", <<"setup_eos_calculations">>,
                            [structure |-> structure_eos,
                             static_maker |-> static_maker,
                             volume_scaling_list |-> maker.scaling_factors,
                             store_directory |-> store_directory,
                             relax_outputs |-> relax_outputs,
                             setname |-> maker.setname,
                             socket |-> socket])
            IN Return([jobs |-> Append(made, eos_static_calcs),
                       output |-> OutputRef(kgrid + 1, "output")])

\* dict[key] = value: a dict keeps its keys in insertion order
RECURSIVE dict_setitem(_, _, _)
dict_setitem(items, key, value) ==
    IF items = <<>> THEN <<DictItem(key, value)>>
    ELSE IF items[1].key = key THEN <<DictItem(key, value)>> \o Tail(items)
    ELSE <<items[1]>> \o dict_setitem(Tail(items), key, value)

\* f"{eta:.02f}"
format_02f(eta) ==
    <<Digits[(eta \div 100) + 1], ".", Digits[((eta % 100) \div 10) + 1],
      Digits[(eta % 10) + 1]>>

\* common/jobs/aewf.py lines 152-160: the outputs dict after the first i
\* factors, the jobs having the uuids n + 1, n + 2, ...
RECURSIVE eos_outputs(_, _, _)
eos_outputs(volume_scaling_list, n, i) ==
    IF i = 0 THEN <<>>
    ELSE dict_setitem(eos_outputs(volume_scaling_list, n, i - 1),
                      float2bson(volume_scaling_list[i]),
                      [uuid |-> n + i, output |-> OutputRef(n + i, "output")])

\* an eos_check that waits for the last EOS calculation only
eos_calc_flow_output_last(volume_scaling_list, n, socket) ==
    IF socket
    THEN [t |-> "tuple", uuid |-> n + 1, output |-> OutputRef(n + 1, "output"),
          factors |-> SortSeq(volume_scaling_list, <)]
    ELSE LET i == Len(volume_scaling_list)
         IN PyDict(<<DictItem(float2bson(volume_scaling_list[i]),
                              [uuid |-> n + i, output |-> OutputRef(n + i, "output")])>>)

\* lines 149-150, 161: eos_calc_flow.output
eos_calc_flow_output(volume_scaling_list, n, socket) ==
    IF socket
    THEN [t |-> "tuple", uuid |-> n + 1, output |-> OutputRef(n + 1, "output"),
          factors |-> SortSeq(volume_scaling_list, <)]
    ELSE PyDict(eos_outputs(volume_scaling_list, n, Len(volume_scaling_list)))

\* common/jobs/aewf.py lines 123-173, run as the job with uuid n, the last of
\* the flow so far: the jobs of the replacement and what was copied
setup_eos_calculations(structure, static_maker, volume_scaling, store_dir, relax_outputs, setname, socket, n) ==
    LET volume_scaling_list == IF IsNone(volume_scaling) THEN DefaultScalingFactors
                               ELSE volume_scaling.items
        store_directory == IF ~IsNone(store_dir) THEN Path(store_dir).value
                           ELSE store_dir
        copied == IF ~IsNone(store_dir) /\ ~IsNone(relax_outputs)
                  THEN {<<"relaxation">>} ELSE {}
        volume0 == structure.volume
        Scaled(eta) == [structure EXCEPT !.volume = ScaleVolume(volume0, eta)]
        sorted == SortSeq(volume_scaling_list, <)
        eos_calcs == IF socket
                THEN << AewfJob("static", <<static_maker.name, " : calc_all_structs">>,
                                [structure |-> PyList([i \in 1..Len(sorted) |->
                                                          Scaled(sorted[i])]),
                                 maker |-> static_maker]) >>
                ELSE [i \in 1..Len(volume_scaling_list) |->
                         AewfJob("static",
                                 <<static_maker.name, " : scaling ">>
                                     \o format_02f(volume_scaling_list[i]),
                                 [structure |-> Scaled(volume_scaling_list[i]),
                                  maker |-> static_maker])]
        eos_check_job ==
            AewfJob("eos_check", <<"eos_check">>,
                    [jobs_outputs |-> eos_calc_flow_output(volume_scaling_list, n, socket),
                     relax_outputs |-> relax_outputs,
                     store_directory |-> store_directory,
                     setname |-> setname,
                     flow_uuid |-> n + 1])
    IN [jobs |-> Append(eos_calcs, eos_check_job),
        output |-> OutputRef(n + Len(eos_calcs) + 1, "output"),
        copied |-> copied]

\* common/jobs/aewf.py lines 56-86: the result and what was copied
eos_check(jobs_outputs, relax_outputs, store_directory, setname, flow_uuid) ==
    LET task_doc == from_outputs(jobs_outputs, relax_outputs, {"setname", "flow_uuid"})
    IN IF task_doc.kind = "raise" THEN [result |-> task_doc, copied |-> {}]
       ELSE [result |-> task_doc,
             copied |->
                IF IsNone(store_directory) THEN {}
                ELSE {<<"eos_results">>} \cup
                     (IF jobs_outputs.t = "dict"
                      THEN {<<"scaling_">> \o format_02f(task_doc.value.scaling_factors[i]) :
                               i \in 1..Len(task_doc.value.scaling_factors)}
                      ELSE {<<"scaling_calcs">>})]

\* ---- the run of the flow by jobflow

\* the most jobs a flow has: relaxation, update_kgrid, setup_eos_calculations,
\* one static calculation per default factor (or MaxFactors of them), eos_check
MaxAewfJobs == 4 + IF MaxFactors > Len(DefaultScalingFactors) THEN MaxFactors
                   ELSE Len(DefaultScalingFactors)

\* the value of a job argument once the job it refers to has completed
AewfResolved(a) == IF a.ref = 0 THEN TRUE ELSE aewf_jobs[a.ref].state = "completed"
AewfResolve(a) ==
    IF a.ref = 0 THEN a.val
    ELSE IF a.attr = "structure" THEN aewf_jobs[a.ref].output.structure
    ELSE aewf_jobs[a.ref].output

\* the jobs whose outputs the jobs_outputs of an eos_check refers to
JobsOutputsRefs(jobs_outputs) ==
    IF jobs_outputs.t = "dict"
    THEN {jobs_outputs.items[i].value.output.ref : i \in 1..Len(jobs_outputs.items)}
    ELSE {jobs_outputs.output.ref}

ResolveJobsOutputs(jobs_outputs) ==
    IF jobs_outputs.t = "dict"
    THEN PyDict([i \in 1..Len(jobs_outputs.items) |->
            [jobs_outputs.items[i] EXCEPT !.value.output = AewfResolve(@)]])
    ELSE [jobs_outputs EXCEPT !.output = AewfResolve(@)]

\* the volumes a structure may have
Volumes == {100, 200}

AewfInit ==
    /\ aewf_args \in
         [entry : {"make", "setup_eos_calculations"},
          maker : [name : {"AEWF EOS Workflow"},
                   static_maker : {StaticMaker},
                   relax_maker : {PyNone, RelaxMaker},
                   store_directory : {PyNone, PyStr("store")},
                   scaling_factors : {PyNone} \cup
                       {PyList(l) : l \in SeqUpTo(Factors, MaxFactors) \ {<<>>}},
                   setname : {PyStr("set")}],
          structure : {Structure(v) : v \in Volumes},
          subdirec : {PyNone, PyStr("sub")},
          socket : BOOLEAN]
    /\ aewf_args.entry = "setup_eos_calculations" => IsNone(aewf_args.subdirec)
    /\ aewf_result = NotCalled
    /\ aewf_jobs = <<>>
    /\ aewf_copied = {}

\* AEWFMaker(...).make(structure, subdirec=subdirec, socket=socket), and the
\* submission of the flow it returns
CallMake ==
    /\ aewf_args.entry = "make"
    /\ aewf_result = NotCalled
    /\ LET result == BaseAEWFMaker_make(BaseAEWFMaker_post_init(aewf_args.maker),
                                        aewf_args.structure, aewf_args.subdirec,
                                        aewf_args.socket)
       IN /\ aewf_result' = result
          /\ aewf_jobs' = IF result.kind = "return" THEN result.value.jobs ELSE <<>>
    /\ UNCHANGED <<aewf_args, aewf_copied, notAewf>>

\* setup_eos_calculations(...) submitted as a job of its own, the relaxation
\* (if any) having been done beforehand
SubmitSetupEos ==
    /\ aewf_args.entry = "setup_eos_calculations"
    /\ aewf_result = NotCalled
    /\ aewf_result' = [kind |-> "submitted"]
    /\ aewf_jobs' =
         << AewfJob("setup_eos_calculations", <<"setup_eos_calculations">>,
                    [structure |-> Val(aewf_args.structure),
                     static_maker |-> Val(aewf_args.maker.static_maker),
                     volume_scaling_list |-> aewf_args.maker.scaling_factors,
                     store_directory |-> aewf_args.maker.store_directory,
                     relax_outputs |->
                        IF IsNone(aewf_args.maker.relax_maker) THEN PyNone
                        ELSE [RelaxOutputs EXCEPT !.output = Val(@)],
                     setname |-> aewf_args.maker.setname,
                     socket |-> aewf_args.socket]) >>
    /\ UNCHANGED <<aewf_args, aewf_copied, notAewf>>

\* the relaxation finds some structure
RunAewfRelax(j) ==
    /\ j \in 1..Len(aewf_jobs)
    /\ aewf_jobs[j].fn = "relax"
    /\ aewf_jobs[j].state = "created"
    /\ \E v \in Volumes :
          aewf_jobs' = [aewf_jobs EXCEPT ![j].state = "completed",
                                         ![j].output = TaskDoc(j, PyFloat(1), Structure(v))]
    /\ UNCHANGED <<aewf_args, aewf_result, aewf_copied, notAewf>>

RunUpdateKgrid(j) ==
    /\ j \in 1..Len(aewf_jobs)
    /\ aewf_jobs[j].fn = "update_kgrid"
    /\ aewf_jobs[j].state = "created"
    /\ AewfResolved(aewf_jobs[j].args.structure)
    /\ aewf_jobs' = [aewf_jobs EXCEPT
          ![j].state = "completed",
          ![j].output = update_kgrid(AewfResolve(aewf_jobs[j].args.structure),
                                     AewfResolve(aewf_jobs[j].args.maker),
                                     aewf_jobs[j].args.scaling_factor)]
    /\ UNCHANGED <<aewf_args, aewf_result, aewf_copied, notAewf>>

\* the job is replaced with the flow of its response
RunSetupEos(j) ==
    /\ j \in 1..Len(aewf_jobs)
    /\ aewf_jobs[j].fn = "setup_eos_calculations"
    /\ aewf_jobs[j].state = "created"
    /\ AewfResolved(aewf_jobs[j].args.structure)
    /\ AewfResolved(aewf_jobs[j].args.static_maker)
    /\ LET args == aewf_jobs[j].args
           relax_outputs == IF IsNone(args.relax_outputs) THEN args.relax_outputs
                            ELSE [args.relax_outputs EXCEPT !.output = AewfResolve(@)]
           response == setup_eos_calculations(
                           AewfResolve(args.structure), AewfResolve(args.static_maker),
                           args.volume_scaling_list, args.store_directory,
                           relax_outputs, args.setname, args.socket, Len(aewf_jobs))
       IN /\ aewf_jobs' = [aewf_jobs EXCEPT ![j].state = "replaced",
                                            ![j].output = response.output]
                          \o response.jobs
          /\ aewf_copied' = aewf_copied \cup response.copied
    /\ UNCHANGED <<aewf_args, aewf_result, notAewf>>

\* a static calculation ends with or without an energy
RunStatic(j) ==
    /\ j \in 1..Len(aewf_jobs)
    /\ aewf_jobs[j].fn = "static"
    /\ aewf_jobs[j].state = "created"
    /\ \E free_energy \in {PyNone, PyFloat(1)} :
          aewf_jobs' = [aewf_jobs EXCEPT
              ![j].state = "completed",
              ![j].output = TaskDoc(j, free_energy, aewf_jobs[j].args.structure)]
    /\ UNCHANGED <<aewf_args, aewf_result, aewf_copied, notAewf>>

RunEosCheck(j) ==
    /\ j \in 1..Len(aewf_jobs)
    /\ aewf_jobs[j].fn = "eos_check"
    /\ aewf_jobs[j].state = "created"
    /\ \A r \in JobsOutputsRefs(aewf_jobs[j].args.jobs_outputs) :
          aewf_jobs[r].state = "completed"
    /\ LET args == aewf_jobs[j].args
           done == eos_check(ResolveJobsOutputs(args.jobs_outputs), args.relax_outputs,
                             args.store_directory, args.setname, args.flow_uuid)
       IN /\ aewf_jobs' = [aewf_jobs EXCEPT
                 ![j].state = IF done.result.kind = "raise" THEN "failed"
                              ELSE "completed",
                 ![j].output = done.result]
          /\ aewf_copied' = aewf_copied \cup done.copied
    /\ UNCHANGED <<aewf_args, aewf_result, notAewf>>

\* ================================= anharmonicity (common/jobs/anharmonicity.py)

\* An array of shape (N, 3) is a sequence of N vectors <<x, y, z>>; an array
\* of shape (K, N, 3) is a sequence of K such arrays.
RECURSIVE SeqSum(_)
SeqSum(l) == IF l = <<>> THEN 0 ELSE l[1] + SeqSum(Tail(l))

RECURSIVE Concat(_)
Concat(ls) == IF ls = <<>> THEN <<>> ELSE ls[1] \o Concat(Tail(ls))

\* ndarray.flatten()
flatten(m) == Concat(m)
flatten_samples(x) == Concat([k \in 1..Len(x) |-> flatten(x[k])])

\* ndarray.reshape((-1, 3))
reshape_3(v) == [i \in 1..(Len(v) \div 3) |-> <<v[3 * i - 2], v[3 * i - 1], v[3 * i]>>]

\* a - b and a + b of arrays of shape (N, 3)
ArraySub(a, b) == [i \in 1..Len(a) |-> [c \in 1..3 |-> a[i][c] - b[i][c]]]
ArrayAdd(a, b) == [i \in 1..Len(a) |-> [c \in 1..3 |-> a[i][c] + b[i][c]]]

\* a force-constants array of shape (n, n, 3, 3) taken as (3n, 3n) without
\* swapping the axes
force_constants_2d_unswapped(fc, n) ==
    [r \in 1..(3 * n) |-> [c \in 1..(3 * n) |->
        LET flat == (r - 1) * 3 * n + (c - 1)
        IN fc[(flat \div (9 * n)) + 1][((flat \div 9) % n) + 1]
             [((flat \div 3) % 3) + 1][(flat % 3) + 1]]]

\* lines 225-229 and 172-176: swapaxes(1, 2), then reshape to (3n, 3n)
force_constants_2d(fc, n) ==
    [r \in 1..(3 * n) |-> [c \in 1..(3 * n) |->
        fc[((r - 1) \div 3) + 1][((c - 1) \div 3) + 1][((r - 1) % 3) + 1][((c - 1) % 3) + 1]]]

\* (-M) @ v
NegMatVec(M, v) ==
    [r \in 1..Len(M) |-> SeqSum([c \in 1..Len(v) |-> (-M[r][c]) * v[c]])]

\* an entry of displaced_structures["coords"]: Cartesian coordinates, or a
\* Calculation whose output structure has them
Coords(array) == [t |-> "ndarray", cart_coords |-> array]
Calculation(array) == [t |-> "Calculation", cart_coords |-> array]

Supercell(lattice, species, cart_coords) ==
    [lattice |-> lattice, species |-> species, cart_coords |-> cart_coords]

\* lines 225-253
get_forces(force_constants, phonon_supercell, displaced_structures) ==
    LET fc_2d == force_constants_2d(force_constants, Len(phonon_supercell.cart_coords))
        coords == displaced_structures.coords
    IN IF Len(coords) = 0
       THEN Raise("IndexError", "list index out of range")
       ELSE LET displacements ==
                    [k \in 1..Len(coords) |->
                        ArraySub(coords[k].cart_coords, phonon_supercell.cart_coords)]
                harmonic_forces ==
                    [k \in 1..Len(displacements) |->
                        reshape_3(NegMatVec(fc_2d, flatten(displacements[k])))]
                dft_forces ==
                    [k \in 1..Len(displaced_structures.forces) |->
                        displaced_structures.forces[k]]
            IN Return(<<dft_forces, harmonic_forces>>)

\* ---- the sigma measure

RECURSIVE GCD(_, _)
GCD(a, b) == IF b = 0 THEN a ELSE GCD(b, a % b)

\* n^2 times the variance of the numbers of l: np.std(l) is its root over n
VarianceN2(l) ==
    Len(l) * SeqSum([i \in 1..Len(l) |-> l[i] * l[i]]) - SeqSum(l) * SeqSum(l)

NaN == [t |-> "float", v |-> "nan"]
Inf == [t |-> "float", v |-> "inf"]
\* the float whose square is num / den, in lowest terms
Root(num, den) ==
    [t |-> "float", v |-> "root", num |-> num \div GCD(num, den), den |-> den \div GCD(num, den)]

\* np.std(a) / np.std(b): numpy divides by zero with a warning, giving nan
\* or inf
StdRatio(a, b) ==
    LET num == VarianceN2(a) * Len(b) * Len(b)
        den == VarianceN2(b) * Len(a) * Len(a)
    IN IF den = 0 THEN (IF num = 0 THEN NaN ELSE Inf) ELSE Root(num, den)

Min(a, b) == IF a <= b THEN a ELSE b

\* a sigma taken against the harmonic forces
get_sigma_a_over_harmonic(dft_forces, harmonic_forces) ==
    LET anharmonic_forces ==
            [k \in 1..Min(Len(dft_forces), Len(harmonic_forces)) |->
                ArraySub(dft_forces[k], harmonic_forces[k])]
    IN StdRatio(flatten_samples(anharmonic_forces), flatten_samples(harmonic_forces))

\* lines 269-275
get_sigma_a(dft_forces, harmonic_forces) ==
    LET anharmonic_forces ==
            [k \in 1..Min(Len(dft_forces), Len(harmonic_forces)) |->
                ArraySub(dft_forces[k], harmonic_forces[k])]
    IN StdRatio(flatten_samples(anharmonic_forces), flatten_samples(dft_forces))

\* np.unique: the elements of S in ascending order
RECURSIVE np_unique(_)
np_unique(S) ==
    IF S = {} THEN <<>>
    ELSE LET least == CHOOSE x \in S : \A y \in S : x <= y
         IN <<least>> \o np_unique(S \ {least})

\* a[:, mask] of an array of shape (K, N, 3)
Masked(a, mask) ==
    [k \in 1..Len(a) |-> SelectSeq([i \in 1..Len(a[k]) |-> [i |-> i, f |-> a[k][i]]],
                                   LAMBDA e : mask[e.i])]
MaskedComponents(a, mask) ==
    Concat([k \in 1..Len(a) |->
               Concat([i \in 1..Len(Masked(a, mask)[k]) |-> Masked(a, mask)[k][i].f])])

\* an array with its number of dimensions; lines 77-79 add the sample axis
Array2(rows) == [ndim |-> 2, rows |-> rows]
Array3(samples) == [ndim |-> 3, samples |-> samples]
expand_dims(a) == IF a.ndim = 2 THEN <<a.rows>> ELSE a.samples

\* lines 73-106; the dict is the sequence of its items
get_sigma_per_atom(structure, forces_dft_in, forces_harmonic_in) ==
    LET forces_dft == expand_dims(forces_dft_in)
        forces_harmonic == IF forces_dft_in.ndim = 2 THEN <<forces_harmonic_in.rows>>
                           ELSE forces_harmonic_in.samples
        num_sites == Len(structure.species)
        numbers == [i \in 1..num_sites |-> structure.species[i].number]
        atom_numbers ==
            IF Len(forces_dft[1]) = 3 * num_sites
            THEN [i \in 1..(3 * num_sites) |-> numbers[((i - 1) \div 3) + 1]]
            ELSE numbers
        symbols == [i \in 1..num_sites |-> structure.species[i].name]
        unique_atoms == np_unique({atom_numbers[i] : i \in 1..Len(atom_numbers)})
        Mask(u) == [i \in 1..Len(atom_numbers) |-> atom_numbers[i] = u]
        First(u) == CHOOSE i \in 1..Len(atom_numbers) :
                       /\ atom_numbers[i] = u
                       /\ \A k \in 1..Len(atom_numbers) : atom_numbers[k] = u => i <= k
    IN [n \in 1..Len(unique_atoms) |->
           LET u == unique_atoms[n]
               f_dft == MaskedComponents(forces_dft, Mask(u))
               f_ha == MaskedComponents(forces_harmonic, Mask(u))
           IN DictItem(symbols[First(u)],
                       StdRatio([i \in 1..Len(f_dft) |-> f_dft[i] - f_ha[i]], f_dft))]

\* ---- displace_structure

\* np.linalg.eigh of a diagonal matrix: the eigenvalues in ascending order
\* and, as columns, the unit vectors they belong to, each with the sign the
\* library happens to give it
RECURSIVE argsort(_, _)
argsort(d, S) ==
    IF S = {} THEN <<>>
    ELSE LET least == CHOOSE r \in S :
                         \A q \in S : d[r] < d[q] \/ (d[r] = d[q] /\ r <= q)
         IN <<least>> \o argsort(d, S \ {least})

np_linalg_eigh(D, signs) ==
    LET n == Len(D)
        order == argsort([r \in 1..n |-> D[r][r]], 1..n)
    IN [eig_val |-> [m \in 1..n |-> D[order[m]][order[m]]],
        eig_vec |-> [r \in 1..n |-> [m \in 1..n |->
                        IF r = order[m] THEN signs[m] ELSE 0]]]

\* a gauge that leaves the modes as the library returned them
gauge_keeps_signs(x_acs, n_modes) == x_acs

\* lines 186-190: the component of largest magnitude of every mode is made
\* positive; x_acs[i][a][m] is component a of atom i of mode m
\* (\o <<>> has a sequence computed once)
gauge(x_acs, n_modes) ==
    LET sign == [m \in 1..n_modes |->
            LET vec == [k \in 1..(3 * Len(x_acs)) |->
                           x_acs[((k - 1) \div 3) + 1][((k - 1) % 3) + 1][m]] \o <<>>
                max_arg == CHOOSE k \in 1..Len(vec) :
                              /\ \A q \in 1..Len(vec) : Abs(vec[q]) <= Abs(vec[k])
                              /\ \A q \in 1..(k - 1) : Abs(vec[q]) < Abs(vec[k])
            IN IF vec[max_arg] > 0 THEN 1 ELSE IF vec[max_arg] < 0 THEN -1 ELSE 0] \o <<>>
    IN [i \in 1..Len(x_acs) |-> [a \in 1..3 |-> [m \in 1..n_modes |->
           x_acs[i][a][m] * sign[m]]]]

\* numpy.random after seed(seed_): rand(n) called for the call-th time.  A
\* seed fixes the numbers; their values stand for 1 - exp(-1/2) or 0 (first
\* call) and for quarter turns (second call).
rand(seed_, call, n) == [m \in 1..n |-> (seed_ + call * m) % (call + 1)]

\* sqrt(-2 log(1 - u)) for u standing for 0 or 1 - exp(-1/2)
Spread(u) == u
\* cos(2 pi u) for u standing for 0, 1/4, 1/2
CosTurn(u) == 1 - u

\* lines 128-140
box_muller(eig_vals, eig_vecs, sqrt_temp_kb, seed_) ==
    LET n_eigvals == Len(eig_vals)
        spread == [m \in 1..n_eigvals |-> Spread(rand(seed_, 1, n_eigvals)[m])]
        A_s == [m \in 1..n_eigvals |-> spread[m] * (sqrt_temp_kb \div eig_vals[m])]
        cos_phi_s == [m \in 1..n_eigvals |-> CosTurn(rand(seed_, 2, n_eigvals)[m])]
    IN [i \in 1..Len(eig_vecs) |-> [a \in 1..3 |->
           SeqSum([m \in 1..n_eigvals |-> A_s[m] * cos_phi_s[m] * eig_vecs[i][a][m]])]]

\* the displacement of lines 172-198 given the answer of np.linalg.eigh; the
\* temperature is given as sqrt(temp * kb), the masses as weight ** -0.5
displacement(phonon_supercell, force_constants, sqrt_temp_kb, one_shot, seed_, signs) ==
    LET n == Len(phonon_supercell.species)
        inv_sqrt_mass == [i \in 1..n |-> phonon_supercell.species[i].inv_sqrt_weight]
        rminv == [r \in 1..(3 * n) |-> inv_sqrt_mass[((r - 1) \div 3) + 1]]
        fc_2d == force_constants_2d(force_constants, n)
        dynamical_matrix ==
            [r \in 1..(3 * n) |-> [c \in 1..(3 * n) |-> fc_2d[r][c] * rminv[r] * rminv[c]]]
        eigh == np_linalg_eigh(dynamical_matrix, signs)
        n_modes == 3 * n - 3
        eig_val == [m \in 1..n_modes |-> ISqrt(eigh.eig_val[m + 3])]
        x_acs == gauge([i \in 1..n |-> [a \in 1..3 |-> [m \in 1..n_modes |->
                            eigh.eig_vec[3 * (i - 1) + a][m + 3]]]], n_modes)
        zetas == [m \in 1..n_modes |-> IF (m - 1) % 2 = 0 THEN 1 ELSE -1]
        a_s == [m \in 1..n_modes |-> (sqrt_temp_kb \div eig_val[m]) * zetas[m]]
        amplitudes ==
            IF one_shot
            THEN [i \in 1..n |-> [a \in 1..3 |->
                     SeqSum([m \in 1..n_modes |-> a_s[m] * x_acs[i][a][m]])]]
            ELSE box_muller(eig_val, x_acs, sqrt_temp_kb, seed_)
    IN [i \in 1..n |-> [a \in 1..3 |-> amplitudes[i][a] * inv_sqrt_mass[i]]]

\* lines 169-205: the structure returned, and how often numpy.random was used
displace_structure(phonon_supercell, force_constants, sqrt_temp_kb, one_shot, seed_, signs) ==
    LET coords == phonon_supercell.cart_coords
        disp == displacement(phonon_supercell, force_constants, sqrt_temp_kb,
                             one_shot, seed_, signs)
    IN [structure |-> Supercell(phonon_supercell.lattice, phonon_supercell.species,
                                ArrayAdd(coords, disp)),
        random_calls |-> IF one_shot THEN 0 ELSE 3]

\* ---- the calls of the anharmonicity functions

Elements == {[number |-> 1, name |-> "H", inv_sqrt_weight |-> 4],
             [number |-> 8, name |-> "O", inv_sqrt_weight |-> 1]}

SupercellCoords(n) == [i \in 1..n |-> <<2 * (i - 1), 0, 0>>]

Supercells ==
    UNION {{Supercell("cubic", species, SupercellCoords(n)) : species \in [1..n -> Elements]}
              : n \in 1..MaxAtoms}

\* force constants coupling all atoms, not symmetric in their axes
CoupledForceConstants(n) ==
    {[i \in 1..n |-> [j \in 1..n |-> [a \in 1..3 |-> [b \in 1..3 |->
          (IF a = b THEN (IF i = j THEN p ELSE q) ELSE 0)
              + (IF a = 1 /\ b = 2 THEN r * i ELSE 0)]]]]
        : p \in {1, 2}, q \in {-1}, r \in {0, 1}}

\* the displaced coordinates of a supercell of n atoms
DisplacedCoords(n) ==
    {ArrayAdd(SupercellCoords(n), [i \in 1..n |-> <<0, 0, 0>>]),
     ArrayAdd(SupercellCoords(n), [i \in 1..n |-> IF i = 1 THEN <<1, 0, 0>> ELSE <<0, 0, 0>>]),
     ArrayAdd(SupercellCoords(n), [i \in 1..n |-> IF i = n THEN <<0, -1, 1>> ELSE <<0, 0, 0>>])}

ForceVectors == {<<0, 0, 0>>, <<1, 0, 2>>, <<1, 1, 1>>}

\* the DFT forces of K displaced structures, different for each
DftForces(n, K) ==
    {[k \in 1..K |-> [i \in 1..n |-> <<k * scale, 0, i - k>>]] : scale \in {1, 2}}

GetForcesArgs ==
    UNION {{[fn |-> "get_forces",
             force_constants |-> fc,
             phonon_supercell |-> cell,
             displaced_structures |->
                 [coords |-> [k \in 1..Len(coords) |->
                                 IF calc THEN Calculation(coords[k]) ELSE Coords(coords[k])],
                  forces |-> forces]]
              : fc \in CoupledForceConstants(Len(cell.species)),
                coords \in [1..K -> DisplacedCoords(Len(cell.species))],
                forces \in DftForces(Len(cell.species), K),
                calc \in BOOLEAN}
              : cell \in {c \in Supercells : \A i \in 1..Len(c.species) : c.species[i].number = 8},
                K \in 0..MaxSamples}

\* DFT forces that grow with the sample, and harmonic forces that leave no, a
\* constant, the whole or a local anharmonic part
ForcePairs(n) ==
    UNION {{[dft |-> [k \in 1..K |-> [i \in 1..n |-> [c \in 1..3 |-> k * atoms[i][c]]]],
             harmonic |-> [k \in 1..K |-> [i \in 1..n |-> [c \in 1..3 |->
                 CASE part = "none" -> k * atoms[i][c]
                   [] part = "constant" -> k * atoms[i][c] - 1
                   [] part = "all" -> 0
                   [] OTHER -> IF k = 1 /\ i = 1 /\ c = 1 THEN k * atoms[i][c] - 1
                               ELSE k * atoms[i][c]]]]]
              : atoms \in [1..n -> ForceVectors],
                part \in {"none", "constant", "all", "local"}}
              : K \in 1..MaxSamples}

GetSigmaAArgs ==
    UNION {{[fn |-> "get_sigma_a", dft_forces |-> f.dft, harmonic_forces |-> f.harmonic]
              : f \in ForcePairs(n)} : n \in 1..MaxAtoms}

GetSigmaPerAtomArgs ==
    UNION {{[fn |-> "get_sigma_per_atom",
             structure |-> cell,
             forces_dft |-> IF Len(f.dft) = 1 /\ flat THEN Array2(f.dft[1])
                            ELSE Array3(f.dft),
             forces_harmonic |-> IF Len(f.dft) = 1 /\ flat THEN Array2(f.harmonic[1])
                                 ELSE Array3(f.harmonic)]
              : f \in ForcePairs(Len(cell.species)), flat \in BOOLEAN}
              : cell \in Supercells}

\* diagonal force constants: three free directions and one spring constant
\* 4^(m-1) for each other direction, starting at direction rot + 1
DiagonalForceConstants(n, rot) ==
    LET base == [r \in 1..(3 * n) |-> IF r <= 3 THEN 0 ELSE 4 ^ (r - 4)]
        diag == [r \in 1..(3 * n) |-> base[((r - 1 + rot) % (3 * n)) + 1]]
    IN [i \in 1..n |-> [j \in 1..n |-> [a \in 1..3 |-> [b \in 1..3 |->
           IF i = j /\ a = b THEN diag[3 * (i - 1) + a] ELSE 0]]]]

\* the eigenvalue of the dynamical matrix that belongs to direction r
Eigenvalue(cell, fc, r) ==
    LET i == ((r - 1) \div 3) + 1
        a == ((r - 1) % 3) + 1
    IN fc[i][i][a][a] * cell.species[i].inv_sqrt_weight * cell.species[i].inv_sqrt_weight

\* no two vibrations have the same frequency
NonDegenerate(cell, fc) ==
    \A r, q \in 1..(3 * Len(cell.species)) :
        (r # q /\ Eigenvalue(cell, fc, r) > 0)
            => Eigenvalue(cell, fc, r) # Eigenvalue(cell, fc, q)

Seed(k) == [t |-> "int", x |-> k]
Seeds == {PyNone} \cup {Seed(k) : k \in 0..MaxSeed}

EighSigns(n) ==
    {[m \in 1..n |-> 1], [m \in 1..n |-> -1], [m \in 1..n |-> IF m % 2 = 0 THEN 1 ELSE -1]}

DisplaceStructureArgs ==
    UNION {{[fn |-> "displace_structure",
             phonon_supercell |-> cell,
             force_constants |-> DiagonalForceConstants(Len(cell.species), rot),
             sqrt_temp_kb |-> amplitude,
             one_shot |-> one_shot,
             seed_ |-> seed_,
             eigh_signs |-> signs]
              : rot \in {k \in 0..(3 * Len(cell.species) - 1) :
                            NonDegenerate(cell, DiagonalForceConstants(Len(cell.species), k))},
                amplitude \in {1024, 2048},
                one_shot \in BOOLEAN,
                seed_ \in Seeds,
                signs \in EighSigns(3 * Len(cell.species))}
              : cell \in Supercells}

AnhInit ==
    /\ anh_args \in GetForcesArgs \cup GetSigmaAArgs \cup GetSigmaPerAtomArgs
                       \cup DisplaceStructureArgs
    /\ anh_result = NotCalled

CallGetForces ==
    /\ anh_args.fn = "get_forces"
    /\ anh_result = NotCalled
    /\ anh_result' = get_forces(anh_args.force_constants, anh_args.phonon_supercell,
                                anh_args.displaced_structures)
    /\ UNCHANGED <<anh_args, notAnh>>

CallGetSigmaA ==
    /\ anh_args.fn = "get_sigma_a"
    /\ anh_result = NotCalled
    /\ anh_result' = Return(get_sigma_a(anh_args.dft_forces, anh_args.harmonic_forces))
    /\ UNCHANGED <<anh_args, notAnh>>

CallGetSigmaPerAtom ==
    /\ anh_args.fn = "get_sigma_per_atom"
    /\ anh_result = NotCalled
    /\ anh_result' = Return(get_sigma_per_atom(anh_args.structure, anh_args.forces_dft,
                                               anh_args.forces_harmonic))
    /\ UNCHANGED <<anh_args, notAnh>>

\* without a seed numpy seeds itself from the operating system
CallDisplaceStructure ==
    /\ anh_args.fn = "displace_structure"
    /\ anh_result = NotCalled
    /\ \E seed_ \in IF IsNone(anh_args.seed_) THEN 0..MaxSeed ELSE {anh_args.seed_.x} :
          anh_result' =
              Return(displace_structure(
                  anh_args.phonon_supercell, anh_args.force_constants,
                  anh_args.sqrt_temp_kb, anh_args.one_shot, seed_,
                  anh_args.eigh_signs))
    /\ UNCHANGED <<anh_args, notAnh>>

\* ========================================================== specifications

RelaxIdle == relax_args = <<>> /\ relax_flow = NoFlow
FpIdle == parameters = <<>> /\ fp_args = <<>> /\ existing_dirs = {} /\ fp_result = NotCalled
FeIdle == fe_args = <<>> /\ fe_result = NotCalled
DispIdle == disp_args = <<>> /\ disp_result = NotCalled
AewfIdle ==
    /\ aewf_args = <<>> /\ aewf_result = NotCalled
    /\ aewf_jobs = <<>> /\ aewf_copied = {}
FitIdle == fit_args = <<>> /\ fit_result = NotCalled
AnhIdle == anh_args = <<>> /\ anh_result = NotCalled
OthersIdle == AewfIdle /\ FitIdle /\ AnhIdle
FirstIdle == ConvIdle /\ StopIdle /\ RelaxIdle /\ FpIdle /\ FeIdle /\ DispIdle

\* the convergence workflow
Init == ConvInit /\ StopIdle /\ RelaxIdle /\ FpIdle /\ FeIdle /\ DispIdle /\ OthersIdle

Next ==
    \E j \in 1..MaxJobs : RunMake(j) \/ RunBase(j) \/ RunUpdate(j)

Spec == Init /\ [][Next]_vars

\* should_stop_children on every input
InitStop == ConvIdle /\ StopInit /\ RelaxIdle /\ FpIdle /\ FeIdle /\ DispIdle /\ OthersIdle

NextStop == CallShouldStopChildren

SpecStop == InitStop /\ [][NextStop]_vars

\* DoubleRelaxMaker.make and the run of its flow
InitRelax == ConvIdle /\ StopIdle /\ RelaxInit /\ FpIdle /\ FeIdle /\ DispIdle /\ OthersIdle

NextRelax == CallDoubleRelaxMake \/ \E i \in 1..2 : RunRelax(i)

SpecRelax == InitRelax /\ [][NextRelax]_vars

\* DoubleRelaxMaker.from_parameters on every input
InitFp == ConvIdle /\ StopIdle /\ RelaxIdle /\ FpInit /\ FeIdle /\ DispIdle /\ OthersIdle

NextFp == CallFromParameters

SpecFp == InitFp /\ [][NextFp]_vars

\* FormationEnergyMaker(...) on every input
InitFe == ConvIdle /\ StopIdle /\ RelaxIdle /\ FpIdle /\ FeInit /\ DispIdle /\ OthersIdle

NextFe == Construct

SpecFe == InitFe /\ [][NextFe]_vars

\* run_displacements and run_phonon_displacements on every input
InitDisp == ConvIdle /\ StopIdle /\ RelaxIdle /\ FpIdle /\ FeIdle /\ DispInit /\ OthersIdle

NextDisp == CallRunDisplacements \/ CallRunPhononDisplacements

SpecDisp == InitDisp /\ [][NextDisp]_vars

\* AEWFDoc.from_outputs and bm on every input
InitFit == FirstIdle /\ AewfIdle /\ FitInit /\ AnhIdle

NextFit == CallFromOutputs \/ CallBm

SpecFit == InitFit /\ [][NextFit]_vars

\* the AEWF workflow, from make or from setup_eos_calculations on
InitAewf == FirstIdle /\ AewfInit /\ FitIdle /\ AnhIdle

NextAewf ==
    \/ CallMake
    \/ SubmitSetupEos
    \/ \E j \in 1..MaxAewfJobs :
          RunAewfRelax(j) \/ RunUpdateKgrid(j) \/ RunSetupEos(j) \/ RunStatic(j)
              \/ RunEosCheck(j)

SpecAewf == InitAewf /\ [][NextAewf]_vars

InitAnh == FirstIdle /\ AewfIdle /\ FitIdle /\ AnhInit

NextAnh == CallGetForces \/ CallGetSigmaA \/ CallGetSigmaPerAtom \/ CallDisplaceStructure

SpecAnh == InitAnh /\ [][NextAnh]_vars

\* ------------------------------------------------------------ claims C1-C3
BaseJobs == {j \in 1..Len(jobs) : jobs[j].kind = "base"}

\* what the convergence file of directory p records
RecordsConverged(p) ==
    IF p = NoDir THEN FALSE
    ELSE IF convergence_file[p].exists THEN convergence_file[p].data.converged
    ELSE FALSE

\* the calculation index a make invocation with previous directory p uses
StepIndex(p) ==
    IF p = NoDir THEN 0
    ELSE IF convergence_file[p].exists THEN convergence_file[p].data.idx + 1
    ELSE 1

\* job j is a make invocation that runs in this step
MakeRuns(j) ==
    /\ j \in 1..Len(jobs)
    /\ jobs[j].kind = "make"
    /\ jobs[j].state = "created"
    /\ jobs'[j].state # "created"

\* the three jobs a make invocation with previous directory p appends
IsReplaceFlow(p) ==
    LET b == Len(jobs) + 1 IN
    /\ Len(jobs') = Len(jobs) + 3
    /\ jobs'[b].kind = "base"
    /\ jobs'[b].field_value = convergence_steps[StepIndex(p) + 1]
    /\ jobs'[b + 1].kind = "update" /\ jobs'[b + 1].base = b
    /\ jobs'[b + 2].kind = "make" /\ jobs'[b + 2].prev_dir = b

\* a written convergence file records converged exactly when it holds at least
\* two criterion values and the last two differ by less than epsilon
FileConvergedIffClose ==
    \A p \in 1..Len(convergence_file) :
        convergence_file[p].exists =>
            LET v == convergence_file[p].data.criterion_values IN
            convergence_file[p].data.converged <=>
                (Len(v) >= 2 /\ Abs(v[Len(v)] - v[Len(v) - 1]) < Epsilon)

\* C1: a make invocation replaces itself with the flow (base calculation with
\* the field set to convergence_steps[idx], update job, next make) exactly when
\* idx < len(convergence_steps) and the convergence file of the previous
\* directory does not record converged = true; converged is recorded exactly
\* when two subsequent criterion values differ by less than epsilon.
C1_ReplacesExactlyWhen ==
    /\ [][\A j \in 1..Len(jobs) :
            MakeRuns(j) =>
                LET p == jobs[j].prev_dir IN
                /\ (jobs'[j].state = "replaced") <=>
                       (StepIndex(p) < Len(convergence_steps) /\ ~RecordsConverged(p))
                /\ IF jobs'[j].state = "replaced" THEN IsReplaceFlow(p)
                   ELSE Len(jobs') = Len(jobs)]_vars
    /\ []FileConvergedIffClose

\* C1 witness: a make invocation has stopped on convergence with steps left,
\* after an earlier one replaced itself
C1_Witness ==
    \E j \in 1..Len(jobs) :
        /\ jobs[j].kind = "make" /\ jobs[j].state = "completed"
        /\ jobs[j].prev_dir # NoDir
        /\ convergence_file[jobs[j].prev_dir].exists
        /\ convergence_file[jobs[j].prev_dir].data.converged
        /\ convergence_file[jobs[j].prev_dir].data.idx + 1 < Len(convergence_steps)
        /\ \E i \in 1..Len(jobs) : jobs[i].kind = "make" /\ jobs[i].state = "replaced"

\* C2: at most n = len(convergence_steps) base calculations are ever created
C2_AtMostNBaseCalculations ==
    Cardinality(BaseJobs) <= Len(convergence_steps)

C4_ThreeWayToggle ==
    stop_result # NotCalled =>
        IF task_state = PyStr("successful")
        THEN stop_result = Return(PyBool(FALSE))
        ELSE /\ handle_unsuccessful = PyBool(TRUE) => stop_result = Return(PyBool(TRUE))
             /\ handle_unsuccessful = PyBool(FALSE) => stop_result = Return(PyBool(FALSE))
             /\ handle_unsuccessful.t # "bool" =>
                    /\ stop_result.kind = "raise"
                    /\ stop_result.value = "RuntimeError"

\* C4 witness: an unsuccessful document with an unknown option has raised
C4_Witness ==
    /\ stop_result.kind = "raise"
    /\ task_state = PyStr("failed")
    /\ handle_unsuccessful = PyStr("stop")

\* ---------------------------------------------------------------- claim C5
\* C5: the flow of DoubleRelaxMaker.make has exactly two jobs; the first gets
\* the caller's structure and prev_dir, the second the first's output
\* structure and output directory, so it runs only after the first has
\* completed and on what the first produced; the names end in " 1" and " 2";
\* the flow's output is the output of the second relaxation.
C5_TwoChainedRelaxations ==
    relax_flow # NoFlow =>
        LET j1 == relax_flow.jobs[1]
            j2 == relax_flow.jobs[2]
        IN /\ Len(relax_flow.jobs) = 2
           /\ j1.structure = Val(relax_args.structure)
           /\ j1.prev_dir = Val(relax_args.prev_dir)
           /\ j2.structure = OutputRef(1, "atoms")
           /\ j2.prev_dir = OutputRef(1, "dir_name")
           /\ j1.name = <<relax_args.maker.relax_maker1, " 1">>
           /\ j2.name = <<relax_args.maker.relax_maker2, " 2">>
           /\ relax_flow.output = OutputRef(2, "output")
           /\ j1.state = "completed" =>
                 /\ j1.in_structure = relax_args.structure
                 /\ j1.in_prev_dir = relax_args.prev_dir
           /\ j2.state = "completed" =>
                 /\ j1.state = "completed"
                 /\ j2.in_structure = j1.out_atoms
                 /\ j2.in_prev_dir = j1.out_dir_name

\* C5 witness: both relaxations have run, the first having changed the structure
C5_Witness ==
    /\ relax_flow # NoFlow
    /\ relax_flow.jobs[2].state = "completed"
    /\ relax_flow.jobs[1].out_atoms # relax_args.structure
    /\ relax_args.prev_dir # NoDir

\* ---------------------------------------------------------------- claim C6
\* some species-defaults directory of the call does not exist
SomeDirMissing ==
    \E i \in 1..Len(fp_args.species_defaults) :
        PathJoin(fp_args.parameters["species_dir"], fp_args.species_defaults[i])
            \notin existing_dirs

\* C6: from_parameters raises ValueError when species_defaults does not have
\* exactly two entries, KeyError when (there are two and) parameters has no
\* species_dir, OSError when (both hold and) one of the two directories does
\* not exist; whenever it raises, no maker is returned and the caller's
\* parameters dict is as it was passed.
C6_RejectsBeforeWork ==
    fp_result # NotCalled =>
        /\ Len(fp_args.species_defaults) # 2 =>
              fp_result.kind = "raise" /\ fp_result.value = "ValueError"
        /\ (Len(fp_args.species_defaults) = 2
              /\ "species_dir" \notin DOMAIN fp_args.parameters) =>
              fp_result.kind = "raise" /\ fp_result.value = "KeyError"
        /\ (Len(fp_args.species_defaults) = 2
              /\ "species_dir" \in DOMAIN fp_args.parameters) =>
              IF SomeDirMissing
              THEN fp_result.kind = "raise" /\ fp_result.value = "OSError"
              ELSE fp_result.kind = "return"
        /\ fp_result.kind = "raise" => parameters = fp_args.parameters

\* C6 witness: the second directory is the missing one, and the call raised
C6_Witness ==
    /\ fp_result.kind = "raise"
    /\ fp_result.value = "OSError"
    /\ Len(fp_args.species_defaults) = 2
    /\ PathJoin(fp_args.parameters["species_dir"], fp_args.species_defaults[1])
          \in existing_dirs

\* ----------------------------------------------------------- claims C7, C8
\* C7: a constructed FormationEnergyMaker with uc_bulk False has a
\* bulk_relax_maker, which is the defect_relax_maker when None was passed;
\* one with uc_bulk True has bulk_relax_maker None and
\* collect_defect_entry_data False, as construction raises ValueError when
\* uc_bulk comes with a bulk_relax_maker or with collect_defect_entry_data.
C7_BulkMakerInvariant ==
    /\ fe_result.kind = "return" =>
          LET m == fe_result.value IN
          /\ m.uc_bulk = fe_args.uc_bulk
          /\ ~m.uc_bulk =>
                /\ m.bulk_relax_maker # NoMaker
                /\ fe_args.bulk_relax_maker = NoMaker =>
                      m.bulk_relax_maker = m.defect_relax_maker
                /\ fe_args.bulk_relax_maker # NoMaker =>
                      m.bulk_relax_maker = fe_args.bulk_relax_maker
          /\ m.uc_bulk =>
                /\ m.bulk_relax_maker = NoMaker
                /\ ~m.collect_defect_entry_data
    /\ (/\ fe_result # NotCalled
        /\ fe_args.uc_bulk
        /\ fe_args.bulk_relax_maker # NoMaker \/ fe_args.collect_defect_entry_data)
       => fe_result.kind = "raise" /\ fe_result.value = "ValueError"

\* C7 witness: constructed with uc_bulk False and no bulk maker passed
C7_Witness ==
    /\ fe_result.kind = "return"
    /\ ~fe_args.uc_bulk
    /\ fe_args.bulk_relax_maker = NoMaker
    /\ fe_args.collect_defect_entry_data

\* some RelaxMaker in the defect_relax_maker, nested ones included, has
\* use_structure_charge = False or relax_cell = True
BadRelaxMaker ==
    \E i \in 1..Len(fe_args.defect_relax_maker) :
        LET n == fe_args.defect_relax_maker[i] IN
        n.cls = "RelaxMaker" /\ (~n.use_structure_charge \/ n.relax_cell)

ValidateMessages ==
    {"use_structure_charge should be set to True", "Cell should not be relaxed"}

\* C8: construction raises validate_maker's ValueError, before any uc_bulk
\* check, exactly when some RelaxMaker in defect_relax_maker (nested ones
\* included) has use_structure_charge = False or relax_cell = True; otherwise
\* the defect_relax_maker of the constructed maker is the one passed.
C8_ValidateMaker ==
    fe_result # NotCalled =>
        IF BadRelaxMaker
        THEN /\ fe_result.kind = "raise"
             /\ fe_result.value = "ValueError"
             /\ fe_result.msg \in ValidateMessages
        ELSE /\ fe_result.kind = "raise" => fe_result.msg \notin ValidateMessages
             /\ fe_result.kind = "return" =>
                   fe_result.value.defect_relax_maker = DefectMaker

\* C8 witness: only a nested RelaxMaker is bad, the uc_bulk arguments are bad
\* too, and construction raised
C8_Witness ==
    /\ fe_result.kind = "raise"
    /\ Len(fe_args.defect_relax_maker) = 3
    /\ \A i \in 1..2 : LET n == fe_args.defect_relax_maker[i] IN
          n.cls = "StaticMaker" \/ (n.use_structure_charge /\ ~n.relax_cell)
    /\ fe_args.defect_relax_maker[3].parent = 2
    /\ fe_args.defect_relax_maker[3].cls = "RelaxMaker"
    /\ fe_args.defect_relax_maker[3].relax_cell
    /\ fe_args.uc_bulk /\ fe_args.bulk_relax_maker # NoMaker

\* ---------------------------------------------------------- claims C9, C10
\* the last three parts of a job name are i/n
NameEndsWith(name, i, n) ==
    /\ Len(name) >= 3
    /\ SubSeq(name, Len(name) - 2, Len(name)) = <<ToString(i), "/", ToString(n)>>

\* list l has n entries, the i-th referring to attribute attr of job i
PerJob(l, attr, n) ==
    /\ l.list
    /\ Len(l.items) = n
    /\ \A i \in 1..n : l.items[i] = JobOutput(i, attr)

\* list l holds n times attribute attr of job 1
Copies(l, attr, n) ==
    /\ l.list
    /\ Len(l.items) = n
    /\ \A i \in 1..n : l.items[i] = JobOutput(1, attr)

\* C9: without socket the replacement flow has N = len(displacements) jobs,
\* the i-th on the i-th displacement and named with suffix i/N (i from 1), and
\* forces, uuids, dirs and coords (or displacement_number) have N entries in
\* displacement order; with socket there is one job on all displacements and
\* uuids and dirs hold N copies of its uuid and directory.
C9_DisplacementFlow ==
    disp_result # NotCalled =>
        LET flow == disp_result.value
            n == Len(disp_args.displacements)
        IN IF disp_args.socket
           THEN /\ Len(flow.jobs) = 1
                /\ flow.jobs[1].structures = disp_args.displacements
                /\ Copies(flow.output.uuids, "uuid", n)
                /\ Copies(flow.output.dirs, "dir_name", n)
           ELSE /\ Len(flow.jobs) = n
                /\ \A i \in 1..n :
                      /\ flow.jobs[i].structures = <<disp_args.displacements[i]>>
                      /\ NameEndsWith(flow.jobs[i].name, i, n)
                /\ PerJob(flow.output.forces, "output.forces", n)
                /\ PerJob(flow.output.uuids, "uuid", n)
                /\ PerJob(flow.output.dirs, "dir_name", n)
                /\ IF disp_args.fn = "run_displacements"
                   THEN PerJob(flow.output.coords, "structure.cart_coords", n)
                   ELSE /\ flow.output.displacement_number.list
                        /\ flow.output.displacement_number.items =
                              [i \in 1..n |-> Number(i - 1)]

\* C9 witness: both modes have produced a flow for several displacements
C9_Witness ==
    /\ disp_result # NotCalled
    /\ Len(disp_args.displacements) = 3
    /\ ~disp_args.socket
    /\ Len(disp_result.value.jobs) = 3
    /\ disp_args.fn = "run_phonon_displacements"

\* C10: every job of the replacement flow was made with the keyword
\* prev_dir_argname = prev_dir when both are not None, and with no
\* previous-directory keyword otherwise
C10_PrevDirUnderArgname ==
    disp_result # NotCalled =>
        \A i \in 1..Len(disp_result.value.jobs) :
            disp_result.value.jobs[i].kwargs =
                IF disp_args.prev_dir # NoDir /\ disp_args.prev_dir_argname # NoArgname
                THEN {<<disp_args.prev_dir_argname, disp_args.prev_dir>>}
                ELSE {}

\* ---------------------------------------------------------- claims C11-C14

\* the setup_eos_calculations jobs that have run
SetupJobs ==
    {j \in 1..Len(aewf_jobs) : /\ aewf_jobs[j].fn = "setup_eos_calculations"
                               /\ aewf_jobs[j].state = "replaced"}
StaticJobs == {j \in 1..Len(aewf_jobs) : aewf_jobs[j].fn = "static"}
CheckJobs == {j \in 1..Len(aewf_jobs) : aewf_jobs[j].fn = "eos_check"}

\* the scaling factors the workflow was asked for
EosList ==
    IF IsNone(aewf_args.maker.scaling_factors) THEN DefaultScalingFactors
    ELSE aewf_args.maker.scaling_factors.items

\* the volume of the structure the EOS calculations start from
Volume0 ==
    IF aewf_args.entry = "make" /\ ~IsNone(aewf_args.maker.relax_maker)
    THEN aewf_jobs[1].output.structure.volume
    ELSE aewf_args.structure.volume

Count(l, x) == Cardinality({i \in 1..Len(l) : l[i] = x})
Ascending(l) == \A i \in 1..Len(l) : \A k \in 1..Len(l) : i < k => l[i] <= l[k]
NoRepeats(l) == \A i \in 1..Len(l) : \A k \in 1..Len(l) : l[i] = l[k] => i = k

\* what the claim says of the replacement of the setup job with uuid j
EosReplacement(j) ==
    LET check == Len(aewf_jobs)
        jobs_outputs == aewf_jobs[check].args.jobs_outputs
    IN /\ CheckJobs = {check}
       /\ IF aewf_args.socket
          THEN /\ StaticJobs = {j + 1}
               /\ aewf_jobs[j + 1].args.structure.t = "list"
               /\ jobs_outputs.t = "tuple"
               /\ jobs_outputs.uuid = j + 1
               /\ jobs_outputs.output.ref = j + 1
               /\ Len(jobs_outputs.factors) = Len(EosList)
               /\ Ascending(jobs_outputs.factors)
               /\ \A x \in Factors \cup {EosList[i] : i \in 1..Len(EosList)} :
                     Count(jobs_outputs.factors, x) = Count(EosList, x)
               /\ Len(aewf_jobs[j + 1].args.structure.items) = Len(EosList)
               /\ \A i \in 1..Len(EosList) :
                     aewf_jobs[j + 1].args.structure.items[i].volume
                         = ScaleVolume(Volume0, jobs_outputs.factors[i])
          ELSE /\ StaticJobs = (j + 1)..(j + Len(EosList))
               /\ jobs_outputs.t = "dict"
               /\ \A i \in 1..Len(EosList) :
                     /\ aewf_jobs[j + i].args.structure.volume
                            = ScaleVolume(Volume0, EosList[i])
                     /\ \E k \in 1..Len(jobs_outputs.items) :
                           /\ jobs_outputs.items[k].key = float2bson(EosList[i])
                           /\ jobs_outputs.items[k].value.uuid = j + i
                           /\ jobs_outputs.items[k].value.output.ref = j + i
       /\ aewf_jobs[check].state # "created" =>
             \A c \in StaticJobs : aewf_jobs[c].state = "completed"

\* C11 as stated: setup_eos_calculations replaces itself with one static
\* calculation per entry of volume_scaling_list (structure scaled to
\* volume0 * eta, reported under float2bson(eta)), or with a socket one
\* calculation over the ascending factors, followed by one eos_check that has
\* run only if every EOS calculation has completed.
C11_SetupEosCalculations ==
    \A j \in SetupJobs : EosReplacement(j)

\* C11: the same, for a volume_scaling_list without repeated factors (or with
\* a socket); two entries with the same factor share one key of the outputs
\* dict, so the earlier calculation is neither reported nor waited for.
C11_SetupEosDistinctFactors ==
    \A j \in SetupJobs :
        (aewf_args.socket \/ NoRepeats(EosList)) => EosReplacement(j)

\* three different factors without a socket, every calculation done and the
\* eos_check run after them
C11_Witness ==
    /\ SetupJobs # {}
    /\ ~aewf_args.socket
    /\ Len(EosList) = 3 /\ NoRepeats(EosList) /\ ~Ascending(EosList)
    /\ aewf_jobs[Len(aewf_jobs)].state # "created"

\* the flow make returned has the jobs the claim lists, in its order
MakeFlowAsClaimed(flow) ==
    LET has_relax == ~IsNone(aewf_args.maker.relax_maker)
        kgrid == IF has_relax THEN 2 ELSE 1
        setup == kgrid + 1
    IN /\ Len(flow.jobs) = setup
       /\ has_relax => flow.jobs[1].fn = "relax"
       /\ flow.jobs[kgrid].fn = "update_kgrid"
       /\ flow.jobs[setup].fn = "setup_eos_calculations"
       /\ \A j \in {kgrid, setup} :
             IF has_relax
             THEN flow.jobs[j].args.structure.ref = 1
                  /\ flow.jobs[j].args.structure.attr = "structure"
             ELSE flow.jobs[j].args.structure.ref = 0
                  /\ flow.jobs[j].args.structure.val = aewf_args.structure
       /\ \A i \in 1..Len(EosList) : flow.jobs[kgrid].args.scaling_factor <= EosList[i]
       /\ \E i \in 1..Len(EosList) : flow.jobs[kgrid].args.scaling_factor = EosList[i]
       /\ flow.jobs[setup].args.static_maker.ref = kgrid
       /\ flow.output.ref = setup

\* C12 as stated: make returns a flow whose jobs are, in this order, the
\* relaxation (only with a relax_maker), update_kgrid and
\* setup_eos_calculations; the EOS structure is the relaxation's output
\* structure or else the input structure, update_kgrid gets the smallest
\* scaling factor, setup_eos_calculations gets the maker update_kgrid returns,
\* and the flow's output is that of setup_eos_calculations.
C12_MakeBuildsJobsInOrder ==
    (aewf_args.entry = "make" /\ aewf_result # NotCalled) =>
        /\ aewf_result.kind = "return"
        /\ MakeFlowAsClaimed(aewf_result.value)

\* C13 as stated: with store_directory None, make returns a flow (with or
\* without a subdirec) and nothing is copied outside the job directories.
C13_StoreDirectoryOptional ==
    (/\ aewf_args.entry = "make"
     /\ aewf_result # NotCalled
     /\ IsNone(aewf_args.maker.store_directory)) =>
        /\ aewf_result.kind = "return"
        /\ aewf_copied = {}

\* C14 as stated: an eos_check that has run on the outputs
\* setup_eos_calculations arranged (dict or socket tuple, with or without
\* relax_outputs) has returned the document from_outputs built, it has not
\* raised.
C14_EosCheckReturnsDoc ==
    \A j \in CheckJobs :
        aewf_jobs[j].state # "created" =>
            /\ aewf_jobs[j].state = "completed"
            /\ aewf_jobs[j].output.kind = "return"

\* ---------------------------------------------------------- claims C15-C16

\* the positions of eos_outputs whose calculation has an energy, in order
RECURSIVE WithEnergy(_, _)
WithEnergy(items, i) ==
    IF i > Len(items) THEN <<>>
    ELSE (IF items[i].value.output.free_energy.t = "float" THEN <<i>> ELSE <<>>)
         \o WithEnergy(items, i + 1)

\* C15 as stated: from_outputs yields a document that keeps exactly the
\* calculations with an energy: energies, volumes, scaling_factors,
\* eos_workflow_uuids and eos_jobdirs have one entry per such calculation, in
\* the order of eos_outputs, entry i of each from the same calculation, and a
\* calculation without energy is warned about and is in none of them.
C15_KeepsCalculationsWithEnergy ==
    (/\ fit_args.fn = "from_outputs"
     /\ fit_args.eos_outputs.t = "dict"
     /\ fit_result # NotCalled) =>
        LET items == fit_args.eos_outputs.items
            kept == WithEnergy(items, 1)
        IN /\ fit_result.kind = "return"
           /\ \A l \in {fit_result.value.energies, fit_result.value.volumes,
                        fit_result.value.scaling_factors,
                        fit_result.value.eos_workflow_uuids,
                        fit_result.value.eos_jobdirs} : Len(l) = Len(kept)
           /\ \A i \in 1..Len(kept) :
                 LET calc == items[kept[i]].value
                 IN /\ fit_result.value.energies[i] = calc.output.free_energy.x
                    /\ fit_result.value.volumes[i] = calc.output.structure.volume
                    /\ float2bson(fit_result.value.scaling_factors[i]) = items[kept[i]].key
                    /\ fit_result.value.eos_workflow_uuids[i] = calc.uuid
                    /\ fit_result.value.eos_jobdirs[i] = calc.output.dir_name
           /\ Len(fit_result.value.warnings) = Len(items) - Len(kept)

\* the fitted cubic a x^3 + b x^2 + c x + d in x = V^(-2/3), and the real x
\* that are stationary points of it, positive, with positive second derivative
Cubic == fit_args.polyfit.coefficients
IsMinimum(x) ==
    /\ 3 * Cubic[1] * x * x + 2 * Cubic[2] * x + Cubic[3] = 0
    /\ x > 0
    /\ 6 * Cubic[1] * x + 2 * Cubic[2] > 0
    /\ ~(Cubic[1] = 0 /\ Cubic[2] = 0)

\* the stationary points in the order np.roots gives them
StationaryPoints == np_roots(polyder(poly1d(Cubic)), fit_args.polyfit.reversed)
Qualifies(r) == r.im = 0 /\ IsMinimum(r.re)

\* C16: bm returns the values taken at the first stationary point of the
\* fitted cubic that is real, positive and has a positive second derivative
\* (the minimum energy being the cubic's value there), and raises
\* ValueError("Error: No minimum could be found") when there is none.
C16_BirchMurnaghanMinimum ==
    (fit_args.fn = "bm" /\ fit_result # NotCalled) =>
        LET points == StationaryPoints
            good == {i \in 1..Len(points) : Qualifies(points[i])}
        IN IF good = {}
           THEN /\ fit_result.kind = "raise"
                /\ fit_result.value = "ValueError"
                /\ fit_result.msg = "Error: No minimum could be found"
           ELSE LET first == CHOOSE i \in good : \A k \in good : i <= k
                    x == points[first].re
                IN /\ fit_result.kind = "return"
                   /\ fit_result.value.volume0.base = points[first]
                   /\ fit_result.value.volume0.power = <<-3, 2>>
                   /\ fit_result.value.min_energy.im = 0
                   /\ fit_result.value.min_energy.re
                          = Cubic[1] * x * x * x + Cubic[2] * x * x + Cubic[3] * x + Cubic[4]
                   /\ fit_result.value.deriv2.re = 6 * Cubic[1] * x + 2 * Cubic[2]
                   /\ fit_result.value.deriv3.re = 6 * Cubic[1]

\* a cubic with a positive maximum that np.roots gives first and a positive
\* minimum after it: bm has returned the values at the minimum
C16_Witness ==
    /\ fit_args.fn = "bm"
    /\ fit_result # NotCalled
    /\ fit_result.kind = "return"
    /\ Len(StationaryPoints) = 2
    /\ StationaryPoints[1].im = 0 /\ StationaryPoints[1].re > 0
    /\ ~Qualifies(StationaryPoints[1])
    /\ Qualifies(StationaryPoints[2])

\* --------------------------------------------------------------- claim C18

\* C18 as stated: whenever the make invocation of iteration k+1 runs (the one
\* whose prev_dir is the directory of base calculation k), the update job of
\* iteration k has already written convergence.json into that directory; in
\* no order of the jobs does that make find the file missing.
C18_UpdateWritesBeforeNextMake ==
    [][\A j \in 1..Len(jobs) :
          (MakeRuns(j) /\ jobs[j].prev_dir # NoDir)
              => convergence_file[jobs[j].prev_dir].exists]_vars

\* ---- C17: the sigma measure

SigmaACalled == anh_args.fn = "get_sigma_a" /\ anh_result.kind = "return"
SigmaPerAtomCalled == anh_args.fn = "get_sigma_per_atom" /\ anh_result.kind = "return"

AllEqual(l) == \A i, j \in 1..Len(l) : l[i] = l[j]

\* sigma is the float whose square is var_anharmonic / var_dft
IsRatioOfStd(sigma, var_anharmonic, var_dft) ==
    /\ sigma.v = "root"
    /\ sigma.num * var_dft = sigma.den * var_anharmonic

IsZero(sigma) == sigma.v = "root" /\ sigma.num = 0

\* the forces of a per-atom call as arrays of shape (K, N, 3)
PerAtomDft == IF anh_args.forces_dft.ndim = 2 THEN <<anh_args.forces_dft.rows>>
              ELSE anh_args.forces_dft.samples
PerAtomHarmonic == IF anh_args.forces_harmonic.ndim = 2 THEN <<anh_args.forces_harmonic.rows>>
                   ELSE anh_args.forces_harmonic.samples

\* the sum of g(f[k][i][c]) over all samples k, the atoms i named name and
\* the components c
SumOverSpecies(f, name, g(_)) ==
    SeqSum([k \in 1..Len(f) |->
        SeqSum([i \in 1..Len(f[k]) |->
            IF anh_args.structure.species[i].name = name
            THEN SeqSum([c \in 1..3 |-> g(f[k][i][c])])
            ELSE 0])])

Square(x) == x * x
Identity(x) == x

\* count^2 times the variance of the force components of a species
SpeciesVariance(f, name) ==
    LET count == SumOverSpecies(f, name, LAMBDA x : 1)
    IN count * SumOverSpecies(f, name, Square)
           - SumOverSpecies(f, name, Identity) * SumOverSpecies(f, name, Identity)

PerAtomAnharmonic ==
    [k \in 1..Len(PerAtomDft) |-> ArraySub(PerAtomDft[k], PerAtomHarmonic[k])]

SpeciesNames == {anh_args.structure.species[i].name : i \in 1..Len(anh_args.structure.species)}

SigmaAAnharmonic ==
    flatten_samples([k \in 1..Len(anh_args.dft_forces) |->
                        ArraySub(anh_args.dft_forces[k], anh_args.harmonic_forces[k])])

SigmaAIsRatio ==
    /\ IsRatioOfStd(anh_result.value, VarianceN2(SigmaAAnharmonic),
                    VarianceN2(flatten_samples(anh_args.dft_forces)))
    /\ IsZero(anh_result.value) <=> AllEqual(SigmaAAnharmonic)
    /\ anh_args.harmonic_forces = anh_args.dft_forces => IsZero(anh_result.value)

SigmaOfSpeciesIsRatio(name) ==
    /\ Cardinality({n \in 1..Len(anh_result.value) : anh_result.value[n].key = name}) = 1
    /\ \A n \in 1..Len(anh_result.value) :
          anh_result.value[n].key = name
              => IsRatioOfStd(anh_result.value[n].value,
                              SpeciesVariance(PerAtomAnharmonic, name),
                              SpeciesVariance(PerAtomDft, name))

\* C17 as stated: get_sigma_a returns std(dft - harmonic) / std(dft) over all
\* components, which is 0 exactly when dft - harmonic is constant and so when
\* the harmonic forces equal the DFT forces; get_sigma_per_atom returns one
\* entry per distinct species, the same ratio over the atoms of that species.
C17_SigmaMeasure ==
    /\ SigmaACalled => SigmaAIsRatio
    /\ SigmaPerAtomCalled =>
          /\ Len(anh_result.value) = Cardinality(SpeciesNames)
          /\ \A name \in SpeciesNames : SigmaOfSpeciesIsRatio(name)

\* C17 where the DFT forces vary: then get_sigma_a returns std(dft - harmonic)
\* / std(dft) over all components, 0 exactly when dft - harmonic is constant;
\* get_sigma_per_atom returns one entry per distinct species, and for every
\* species whose DFT forces vary that entry is the ratio over its atoms.
\* Where the DFT forces do not vary the result is nan or inf.
C17_SigmaMeasureOfVaryingForces ==
    /\ SigmaACalled =>
          IF AllEqual(flatten_samples(anh_args.dft_forces))
          THEN anh_result.value \in {NaN, Inf}
          ELSE SigmaAIsRatio
    /\ SigmaPerAtomCalled =>
          /\ Len(anh_result.value) = Cardinality(SpeciesNames)
          /\ \A name \in SpeciesNames :
                IF SpeciesVariance(PerAtomDft, name) = 0
                THEN \A n \in 1..Len(anh_result.value) :
                        anh_result.value[n].key = name
                            => anh_result.value[n].value \in {NaN, Inf}
                ELSE SigmaOfSpeciesIsRatio(name)

C17_Witness ==
    /\ SigmaACalled
    /\ Len(anh_args.dft_forces) = 2
    /\ Len(anh_args.dft_forces[1]) = 2
    /\ anh_result.value.v = "root"
    /\ anh_result.value.num > 0
    /\ anh_result.value.num # anh_result.value.den

\* ---- C19: displace_structure

DisplaceCalled == anh_args.fn = "displace_structure" /\ anh_result.kind = "return"

Direction(i, a) == 3 * (i - 1) + a

\* the place of a vibration among the eigenvalues in ascending order
Rank(r) ==
    1 + Cardinality({q \in 1..(3 * Len(anh_args.phonon_supercell.species)) :
                        Eigenvalue(anh_args.phonon_supercell, anh_args.force_constants, q)
                            < Eigenvalue(anh_args.phonon_supercell, anh_args.force_constants, r)})

\* the one-shot displacement of atom i along a: mode s = Rank - 4 moves it by
\* (-1)^s sqrt(temp kb) / frequency / sqrt(mass)
OneShotDisplacement(i, a) ==
    LET eigenvalue == Eigenvalue(anh_args.phonon_supercell, anh_args.force_constants,
                                 Direction(i, a))
    IN IF eigenvalue = 0 THEN 0
       ELSE (anh_args.sqrt_temp_kb \div ISqrt(eigenvalue))
                * (IF (Rank(Direction(i, a)) - 4) % 2 = 0 THEN 1 ELSE -1)
                * anh_args.phonon_supercell.species[i].inv_sqrt_weight

GetForcesCalled == anh_args.fn = "get_forces" /\ anh_result.kind # "not called"

\* component a of minus the force constants applied to the displacement
\* coords - phonon_supercell, on atom i
HarmonicForce(coords, i, a) ==
    -SeqSum([j \in 1..Len(coords) |->
        SeqSum([b \in 1..3 |->
            anh_args.force_constants[i][j][a][b]
                * (coords[j][b] - anh_args.phonon_supercell.cart_coords[j][b])])])

GetForcesAsClaimed ==
    /\ anh_result.kind = "return"
    /\ LET given == anh_args.displaced_structures
           dft_forces == anh_result.value[1]
           harmonic_forces == anh_result.value[2]
       IN /\ Len(dft_forces) = Len(given.coords)
          /\ Len(harmonic_forces) = Len(given.coords)
          /\ \A k \in 1..Len(given.coords) :
                /\ dft_forces[k] = given.forces[k]
                /\ Len(harmonic_forces[k]) = Len(anh_args.phonon_supercell.cart_coords)
                /\ \A i \in 1..Len(harmonic_forces[k]) : \A a \in 1..3 :
                      harmonic_forces[k][i][a] = HarmonicForce(given.coords[k].cart_coords, i, a)
                /\ given.coords[k].cart_coords = anh_args.phonon_supercell.cart_coords
                      => \A i \in 1..Len(harmonic_forces[k]) :
                            harmonic_forces[k][i] = <<0, 0, 0>>

\* C20 as stated: get_forces returns [dft_forces, harmonic_forces], one entry
\* per displaced structure in the same order, harmonic force k being minus
\* the force constants applied to the displacement of structure k and DFT
\* force k the k-th given force.
C20_GetForces == GetForcesCalled => GetForcesAsClaimed

\* C20 for at least one displaced structure: then get_forces returns
\* [dft_forces, harmonic_forces] as stated; for none it raises IndexError.
C20_GetForcesOfDisplacedStructures ==
    GetForcesCalled =>
        IF Len(anh_args.displaced_structures.coords) = 0
        THEN anh_result.kind = "raise" /\ anh_result.value = "IndexError"
        ELSE GetForcesAsClaimed

C20_Witness ==
    /\ GetForcesCalled
    /\ anh_result.kind = "return"
    /\ Len(anh_args.phonon_supercell.cart_coords) = 2
    /\ Len(anh_result.value[2]) = 2
    /\ anh_result.value[2][1] # anh_result.value[2][2]
    /\ \E i \in 1..2 : anh_result.value[2][2][i][1] # anh_result.value[2][2][i][2]
    /\ anh_result.value[1][1] # anh_result.value[1][2]

====
